---------------------------- MODULE Spec2Model ----------------------------
(***************************************************************************)
(* Model of the mpesa-credit-proof core:                                   *)
(*   - the scoring kernel (methods/guest/src/main.rs), a pure function,    *)
(*   - the proof-session table, the proof_queue and the proof worker       *)
(*     (api/src/worker.rs, api/src/services/proof.rs),                     *)
(*   - the HTTP handlers that create sessions and read them back           *)
(*     (api/src/handlers/proofs.rs, verification.rs, lender.rs).           *)
(*                                                                         *)
(* Three specifications share the variables:                               *)
(*   Spec         the queue pipeline (generate, upload, workers, queue),   *)
(*   GatewaySpec  both generate endpoints, one worker, the clock and the   *)
(*                status, result and verification endpoints,               *)
(*   KernelSpec   the scoring kernel applied to bounded transaction lists. *)
(***************************************************************************)
EXTENDS Integers, Sequences, FiniteSets, TLC

VARIABLES
    sessions,      \* proof_sessions table: session index -> row
    users,         \* users table: the ids present
    tills,         \* business_tills table: till id -> owning user
    transactions,  \* transactions table: till -> rows in insertion order
    queue,         \* Redis list proof_queue; head = left end (LPUSH side)
    wpc,           \* worker -> position inside Worker::process_next_job
    wjob,          \* worker -> session id parsed from the popped entry
    wtxs,          \* worker -> transactions loaded for the job
    wout,          \* worker -> host ProofOutput returned by execute_zkvm_proof
    werr,          \* worker -> error carried out of generate_proof
    faults,        \* transient queue/database failures injected so far
    pushes,        \* entries put on proof_queue by something other than generate_proof
    accepted,      \* sessions whose POST /api/proofs/generate answered Ok
    now,           \* wall clock, in days
    reply,         \* response of the handler that ran in the last step
    kinput,        \* KernelSpec: the ProofInput handed to the guest
    koutput        \* KernelSpec: the ProofOutput the guest committed

sysvars == <<sessions, users, tills, transactions, queue, wpc, wjob, wtxs, wout, werr,
             faults, pushes, accepted, now, reply>>
kvars   == <<kinput, koutput>>
vars    == <<sessions, users, tills, transactions, queue, wpc, wjob, wtxs, wout, werr,
             faults, pushes, accepted, now, reply, kinput, koutput>>

---------------------------------------------------------------------------
(* Bounds of the model *)

MaxTx == 3            \* longest ProofInput explored by KernelSpec
MaxSessions == 2      \* rows the proof_sessions table may hold
MaxQueue == 2         \* entries proof_queue may hold
MaxFaults == 1        \* transient queue/database failures injected
MaxExternalPush == 1  \* entries pushed onto proof_queue from outside generate_proof
MaxCode == 2          \* distinct values generate_verification_code may return
MaxIdsLen == 2        \* tokens in the ids parameter of bulk-verify
MaxShuffledDays == 3  \* day buckets whose every iteration order is explored
MaxDays == 9          \* longest run of consecutive days explored by DailySpec
MaxVolume == 12       \* largest total amount of a DailySpec input
MaxReferences == 29   \* distinct references of a DiversitySpec input
MaxValidTx == 50      \* longest DiversitySpec input

---------------------------------------------------------------------------
(* Generic helpers *)

SetMin(S) == CHOOSE x \in S : \A y \in S : x <= y
SetMax(S) == CHOOSE x \in S : \A y \in S : x >= y

\* the elements of a finite set of integers, ascending (Vec::sort on the
\* keys): the element at place i has i - 1 elements below it
SortedSeq(S) ==
    [i \in 1..Cardinality(S) |-> CHOOSE x \in S : Cardinality({y \in S : y < x}) = i - 1] \o <<>>

\* Rust integer division truncates toward zero (b > 0)
TruncDiv(a, b) == IF a >= 0 THEN a \div b ELSE -((-a) \div b)

---------------------------------------------------------------------------
(* Call by value.  Rust evaluates an argument once, before the call.  An   *)
(* operator below does the same where it uses a value several times: it   *)
(* binds the value as the element of a one-element set and chooses the     *)
(* result out of the one-element set of results.                           *)

---------------------------------------------------------------------------
(* Unsigned integers of any size: the limbs of a number, least significant *)
(* first, each below Base, the last one nonzero; zero is <<>>.  They carry *)
(* u64 values and f64 significands, which do not fit the model's integers. *)

LimbBits == 15
Base == 2^LimbBits

RECURSIVE BN(_)
\* the limbs of a model integer n >= 0
BN(n0) == (CHOOSE the \in {IF n = 0 THEN <<>> ELSE <<n % Base>> \o BN(n \div Base) : n \in {n0}} : TRUE)

\* the index of the highest nonzero limb of a, 0 when there is none
BTop(a) ==
    CHOOSE n \in 0..Len(a) : (n = 0 \/ a[n] # 0) /\ \A j \in (n + 1)..Len(a) : a[j] = 0

\* a without its high zero limbs
BTrim(a0) == (CHOOSE the \in {SubSeq(a, 1, BTop(a)) : a \in {a0 \o <<>>}} : TRUE)

BLimb(a, i) == IF i <= Len(a) THEN a[i] ELSE 0

\* whether the limbs below i send a carry into limb i, g being the limbwise
\* sums: some limb below overflows and every limb between is full
BCarryInto(g, i) ==
    \E j \in 1..(i - 1) : g[j] >= Base /\ \A k \in (j + 1)..(i - 1) : g[k] = Base - 1

BAddLimbs(g0) ==
    (CHOOSE the \in {BTrim([i \in DOMAIN g |->
                         (g[i] + (IF BCarryInto(g, i) THEN 1 ELSE 0)) % Base]) :
         g \in {g0}} : TRUE)

BAdd(a0, b0) ==
    (CHOOSE the \in {BAddLimbs([i \in 1..((IF Len(a) > Len(b) THEN Len(a) ELSE Len(b)) + 1) |->
                                    BLimb(a, i) + BLimb(b, i)] \o <<>>) :
         a \in {a0}, b \in {b0}} : TRUE)

\* whether the limbs below i borrow from limb i, d being the limbwise
\* differences: some limb below is negative and every limb between is zero
BBorrowFrom(d, i) ==
    \E j \in 1..(i - 1) : d[j] < 0 /\ \A k \in (j + 1)..(i - 1) : d[k] = 0

BSubLimbs(d0) ==
    (CHOOSE the \in {BTrim([i \in DOMAIN d |->
                         (d[i] + Base - (IF BBorrowFrom(d, i) THEN 1 ELSE 0)) % Base]) :
         d \in {d0}} : TRUE)

\* a - b for a >= b
BSub(a0, b0) ==
    (CHOOSE the \in {BSubLimbs([i \in DOMAIN a |-> a[i] - BLimb(b, i)] \o <<>>) :
         a \in {a0}, b \in {b0}} : TRUE)

\* -1, 0 or 1 as a < b, a = b or a > b
BCmp(a0, b0) ==
    (CHOOSE the \in {IF Len(a) < Len(b) THEN -1
         ELSE IF Len(a) > Len(b) THEN 1
         ELSE IF \A i \in DOMAIN a : a[i] = b[i] THEN 0
         ELSE IF \E i \in DOMAIN a : a[i] < b[i] /\ \A j \in (i + 1)..Len(a) : a[j] = b[j]
              THEN -1
         ELSE 1 : a \in {a0}, b \in {b0}} : TRUE)

BShlLimbs(a0, n0) ==
    (CHOOSE the \in {IF a = <<>> THEN <<>> ELSE [i \in 1..n |-> 0] \o a : a \in {a0}, n \in {n0}} : TRUE)

\* a * k for 0 <= k <= Base: the low limbs of the limbwise products plus
\* their high limbs one place up
BMulSmall(a0, k0) ==
    (CHOOSE the \in {BAdd(BTrim([i \in DOMAIN a |-> (a[i] * k) % Base]),
                          BShlLimbs(BTrim([i \in DOMAIN a |-> (a[i] * k) \div Base]), 1)) :
         a \in {a0}, k \in {k0}} : TRUE)

RECURSIVE BMulFrom(_, _, _)
BMulFrom(a, b, j0) ==
    (CHOOSE the \in {IF j > Len(b) THEN <<>>
         ELSE BAdd(BShlLimbs(BMulSmall(a, b[j]), j - 1), BMulFrom(a, b, j + 1)) : j \in {j0}} : TRUE)

BMul(a0, b0) == (CHOOSE the \in {BMulFrom(a, b, 1) : a \in {a0}, b \in {b0}} : TRUE)

\* a * 2^k
BShl(a0, k0) ==
    (CHOOSE the \in {BShlLimbs(BMulSmall(a, 2^(k % LimbBits)), k \div LimbBits) : a \in {a0}, k \in {k0}} : TRUE)

RECURSIVE BDivSmallFrom(_, _, _, _)
\* the quotient limbs, most significant first, of the limbs of a from limb i
\* down, behind the remainder r of the limbs above
BDivSmallFrom(a, k, i0, r) ==
    (CHOOSE the \in {IF i = 0 THEN <<cur>>
         ELSE <<(cur * Base + a[i]) \div k>>
              \o BDivSmallFrom(a, k, i - 1, (cur * Base + a[i]) % k) :
         i \in {i0}, cur \in {r}} : TRUE)

\* quotient and remainder of a by k, 0 < k <= Base
BDivSmall(a0, k0) ==
    (CHOOSE the \in {[q |-> BTrim([i \in 1..Len(a) |-> d[Len(a) + 1 - i]]), r |-> d[Len(d)]] :
         d \in {BDivSmallFrom(a0, k0, Len(a0), 0)}, a \in {a0}} : TRUE)

\* floor(a / 2^k): limb i takes the high bits of limb i + s and the low r
\* bits of the limb above it
BShrBits(a, s, r) ==
    BTrim([i \in 1..(Len(a) - s) |->
               a[i + s] \div 2^r + (BLimb(a, i + s + 1) % 2^r) * 2^(LimbBits - r)])

BShr(a0, k0) ==
    (CHOOSE the \in {IF k \div LimbBits >= Len(a) THEN <<>>
         ELSE BShrBits(a, k \div LimbBits, k % LimbBits) :
         a \in {a0}, k \in {k0}} : TRUE)

\* the number of bits of a
BBitLen(a0) ==
    (CHOOSE the \in {IF a = <<>> THEN 0
         ELSE LimbBits * (Len(a) - 1)
              + (CHOOSE k \in 1..LimbBits : 2^(k - 1) <= a[Len(a)] /\ a[Len(a)] < 2^k) :
         a \in {a0}} : TRUE)

BIsOdd(a0) == (CHOOSE the \in {a # <<>> /\ a[1] % 2 = 1 : a \in {a0}} : TRUE)

\* a * Base + limb
BPush(a0, limb0) ==
    (CHOOSE the \in {IF a = <<>> /\ limb = 0 THEN <<>> ELSE <<limb>> \o a : a \in {a0}, limb \in {limb0}} : TRUE)

RECURSIVE BDigit(_, _, _)
\* the largest d <= guess with b * d <= r
BDigit(r, b, guess0) ==
    (CHOOSE the \in {IF BCmp(BMulSmall(b, guess), r) > 0 THEN BDigit(r, b, guess - 1) ELSE guess :
         guess \in {guess0}} : TRUE)

\* the first guess of a quotient digit: the top two limbs of r by the top
\* limb of b
BGuess(r, b) ==
    (CHOOSE the \in {IF g < Base THEN g ELSE Base - 1 :
         g \in {(BLimb(r, Len(b) + 1) * Base + BLimb(r, Len(b))) \div b[Len(b)]}} : TRUE)

\* one step of the long division: the limb comes below the remainder r0,
\* and the quotient q0 gets the digit that fits
BDivModStep(q0, r0, limb, b) ==
    (CHOOSE the \in {(CHOOSE the \in {[q |-> BPush(q0, d), r |-> BSub(r2, BMulSmall(b, d))] :
                   d \in {BDigit(r2, b, BGuess(r2, b))}} : TRUE) :
         r2 \in {BPush(r0, limb)}} : TRUE)

RECURSIVE BDivModFrom(_, _, _, _)
\* long division, one limb of a at a time from limb i down; the top limb of
\* b is at least Base / 2, which keeps the guessed digit within 2 of the
\* quotient digit
BDivModFrom(a, b, i0, qr0) ==
    (CHOOSE the \in {IF i = 0 THEN qr
         ELSE BDivModFrom(a, b, i - 1, BDivModStep(qr.q, qr.r, a[i], b)) :
         i \in {i0}, qr \in {qr0}} : TRUE)

\* the limb of a at which the long division by b starts: the limbs above
\* it, one fewer than b has, are below b and make the first remainder
BDivModStart(a, b) == IF Len(a) >= Len(b) THEN Len(a) - Len(b) + 1 ELSE 0

\* quotient of a by b and whether it is exact, b nonzero
BDivMod(a0, b0) ==
    (CHOOSE the \in {IF Len(b) = 1
         THEN (CHOOSE the \in {[q |-> d.q, exact |-> d.r = 0] : d \in {BDivSmall(a, b[1])}} : TRUE)
         ELSE (CHOOSE the \in {[q |-> d.q, exact |-> d.r = <<>>] :
                   d \in {(CHOOSE the \in {BDivModFrom(sa, sb, BDivModStart(sa, sb),
                                                [q |-> <<>>,
                                                 r |-> SubSeq(sa, BDivModStart(sa, sb) + 1, Len(sa))]) :
                              sa \in {BShl(a, LimbBits * Len(b) - BBitLen(b))},
                              sb \in {BShl(b, LimbBits * Len(b) - BBitLen(b))}} : TRUE)}} : TRUE) :
         a \in {a0}, b \in {b0}} : TRUE)

\* one step of Newton's iteration for the square root of a
BSqrtStep(a, x) ==
    (CHOOSE the \in {BShr(BAdd(x, d.q), 1) : d \in {BDivMod(a, x)}} : TRUE)

RECURSIVE BSqrtFrom(_, _, _)
\* Newton's iteration from a guess x >= sqrt(a) and its successor y: it
\* decreases to floor(sqrt(a))
BSqrtFrom(a, x0, y0) ==
    (CHOOSE the \in {IF BCmp(y, x) >= 0 THEN x ELSE BSqrtFrom(a, y, BSqrtStep(a, y)) :
         x \in {x0}, y \in {y0}} : TRUE)

\* floor(sqrt(a)) and whether it is exact
BSqrt(a0) ==
    (CHOOSE the \in {IF a = <<>> THEN [root |-> <<>>, exact |-> TRUE]
         ELSE (CHOOSE the \in {[root |-> root, exact |-> BMul(root, root) = a] :
                   root \in {(CHOOSE the \in {BSqrtFrom(a, x, BSqrtStep(a, x)) :
                                 x \in {BShl(<<1>>, (BBitLen(a) + 1) \div 2)}} : TRUE)}} : TRUE) :
         a \in {a0}} : TRUE)

---------------------------------------------------------------------------
(* f64: IEEE 754 binary64 with round-to-nearest-even.  A finite value is   *)
(* sgn * m * 2^e with m below 2^53 (or equal to it).  The kernel's values  *)
(* stay far inside the exponent range, so no overflow or subnormal occurs. *)

F64Bits == 53

FZero == [sgn |-> 1, m |-> <<>>, e |-> 0]

\* the number of low zero limbs of a nonzero m
BLowZeros(m) == (CHOOSE i \in DOMAIN m : m[i] # 0 /\ \A j \in 1..(i - 1) : m[j] = 0) - 1

\* drops low zero limbs of the significand
FStrip(sgn, m0, e0) ==
    (CHOOSE the \in {IF m = <<>> THEN FZero
         ELSE [sgn |-> sgn, m |-> SubSeq(m, BLowZeros(m) + 1, Len(m)),
               e |-> e0 + LimbBits * BLowZeros(m)] : m \in {m0}} : TRUE)

\* m without its low sh bits, rounded to nearest, ties to even
BRound(m, sh, sticky) ==
    (CHOOSE the \in {(CHOOSE the \in {IF c > 0 \/ (c = 0 /\ (sticky \/ BIsOdd(q))) THEN BAdd(q, <<1>>) ELSE q :
              c \in {BCmp(BSub(m, BShl(q, sh)), BShl(<<1>>, sh - 1))}} : TRUE) :
         q \in {BShr(m, sh)}} : TRUE)

\* the f64 nearest to sgn * m * 2^e, or to a value just above it in
\* magnitude when sticky (m then has at least F64Bits + 2 bits)
FRound(sgn0, m0, e0, sticky0) ==
    (CHOOSE the \in {(CHOOSE the \in {FStrip(sgn, IF sh <= 0 THEN m ELSE BRound(m, sh, sticky),
                     IF sh <= 0 THEN e ELSE e + sh) :
              sh \in {BBitLen(m) - F64Bits}, sticky \in {sticky0}} : TRUE) :
         sgn \in {sgn0}, m \in {m0}, e \in {e0}} : TRUE)

\* `as f64` on an unsigned integer
FFromBN(a) == FRound(1, a, 0, FALSE)

\* `as f64` on an integer of the model, all of which an f64 holds exactly
FFromInt(n0) ==
    (CHOOSE the \in {IF n = 0 THEN FZero
         ELSE FStrip(IF n < 0 THEN -1 ELSE 1, BN(IF n < 0 THEN -n ELSE n), 0) : n \in {n0}} : TRUE)

FNeg(a0) == (CHOOSE the \in {IF a.m = <<>> THEN a ELSE [a EXCEPT !.sgn = -a.sgn] : a \in {a0}} : TRUE)

\* a + b for nonzero a and b, their significands ma and mb brought to the
\* same exponent e
FAddAligned(a, b, ma, mb, e) ==
    (CHOOSE the \in {FRound(IF a.sgn = b.sgn \/ c > 0 THEN a.sgn ELSE IF c = 0 THEN 1 ELSE b.sgn,
                IF a.sgn = b.sgn THEN BAdd(ma, mb)
                ELSE BSub(IF c > 0 THEN ma ELSE mb, IF c > 0 THEN mb ELSE ma),
                e, FALSE) : c \in {BCmp(ma, mb)}} : TRUE)

FAdd(a0, b0) ==
    (CHOOSE the \in {IF a.m = <<>> THEN b
         ELSE IF b.m = <<>> THEN a
         ELSE (CHOOSE the \in {FAddAligned(a, b, BShl(a.m, a.e - e), BShl(b.m, b.e - e), e) :
                   e \in {IF a.e < b.e THEN a.e ELSE b.e}} : TRUE) :
         a \in {a0}, b \in {b0}} : TRUE)

FSub(a, b) == FAdd(a, FNeg(b))

FMul(a0, b0) ==
    (CHOOSE the \in {IF a.m = <<>> \/ b.m = <<>> THEN FZero
         ELSE FRound(a.sgn * b.sgn, BMul(a.m, b.m), a.e + b.e, FALSE) :
         a \in {a0}, b \in {b0}} : TRUE)

\* a / b, b nonzero
FDiv(a0, b0) ==
    (CHOOSE the \in {IF a.m = <<>> THEN FZero
         ELSE (CHOOSE the \in {(CHOOSE the \in {FRound(a.sgn * b.sgn, d.q, a.e - k - b.e, ~d.exact) :
                        d \in {BDivMod(BShl(a.m, k), b.m)}} : TRUE) :
                   k \in {IF BBitLen(b.m) + F64Bits + 2 > BBitLen(a.m)
                          THEN BBitLen(b.m) + F64Bits + 2 - BBitLen(a.m) ELSE 0}} : TRUE) :
         a \in {a0}, b \in {b0}} : TRUE)

\* the least k >= need with e - k even
FSqrtShift(e, need) ==
    (CHOOSE the \in {IF (e - k0) % 2 = 0 THEN k0 ELSE k0 + 1 : k0 \in {IF need > 0 THEN need ELSE 0}} : TRUE)

\* f64::sqrt, a >= 0
FSqrt(a0) ==
    (CHOOSE the \in {IF a.m = <<>> THEN FZero
         ELSE (CHOOSE the \in {(CHOOSE the \in {FRound(1, s.root, (a.e - k) \div 2, ~s.exact) :
                        s \in {BSqrt(BShl(a.m, k))}} : TRUE) :
                   k \in {FSqrtShift(a.e, 2 * (F64Bits + 2) - BBitLen(a.m))}} : TRUE) :
         a \in {a0}} : TRUE)

\* -1, 0 or 1 as |a| < |b|, |a| = |b| or |a| > |b|, a and b nonzero
FCmpMagnitude(a, b) ==
    (CHOOSE the \in {BCmp(BShl(a.m, a.e - e), BShl(b.m, b.e - e)) :
         e \in {IF a.e < b.e THEN a.e ELSE b.e}} : TRUE)

\* -1, 0 or 1 as a < b, a = b or a > b
FCmp(a0, b0) ==
    (CHOOSE the \in {IF a.m = <<>> THEN (IF b.m = <<>> THEN 0 ELSE -b.sgn)
         ELSE IF b.m = <<>> THEN a.sgn
         ELSE IF a.sgn # b.sgn THEN a.sgn
         ELSE a.sgn * FCmpMagnitude(a, b) : a \in {a0}, b \in {b0}} : TRUE)

FMin(a0, b0) == (CHOOSE the \in {IF FCmp(a, b) < 0 THEN a ELSE b : a \in {a0}, b \in {b0}} : TRUE)
FMax(a0, b0) == (CHOOSE the \in {IF FCmp(a, b) > 0 THEN a ELSE b : a \in {a0}, b \in {b0}} : TRUE)

\* the integer part of |a|
FTrunc(a0) == (CHOOSE the \in {IF a.e >= 0 THEN BShl(a.m, a.e) ELSE BShr(a.m, -a.e) : a \in {a0}} : TRUE)

---------------------------------------------------------------------------
(* u64 arithmetic of the guest.  Whether an overflowing sum panics or      *)
(* wraps is decided by the build's overflow-checks setting, which the      *)
(* repository does not fix; a run carries the setting it was built with.   *)

TwoTo64 == BShl(<<1>>, 64)
U64Max == BSub(TwoTo64, <<1>>)

\* the model integer a number below 2^30 stands for
BVal(a0) ==
    (CHOOSE the \in {IF a = <<>> THEN 0
         ELSE IF Len(a) = 1 THEN a[1]
         ELSE a[1] + Base * a[2] : a \in {a0}} : TRUE)

\* `as u64` on an i64: a negative value becomes 2^64 - |value|
I64AsU64(n0) == (CHOOSE the \in {IF n >= 0 THEN BN(n) ELSE BSub(TwoTo64, BN(-n)) : n \in {n0}} : TRUE)

\* Iterator::collect: the elements of a sequence, each computed once
Collect(s) == s \o <<>>

RECURSIVE BSumFrom(_, _, _)
BSumFrom(s, i0, acc0) ==
    (CHOOSE the \in {IF i > Len(s) THEN acc ELSE BSumFrom(s, i + 1, BAdd(acc, s[i])) :
         i \in {i0}, acc \in {acc0}} : TRUE)

\* the sum of a sequence of numbers, without any width
BSum(s0) == (CHOOSE the \in {BSumFrom(s, 1, <<>>) : s \in {Collect(s0)}} : TRUE)

\* a + b in u64 when overflow wraps
U64Add(a, b) ==
    (CHOOSE the \in {IF BCmp(t, TwoTo64) >= 0 THEN BSub(t, TwoTo64) ELSE t :
         t \in {BAdd(a, b)}} : TRUE)

RECURSIVE U64SumFrom(_, _, _)
U64SumFrom(s, i0, acc0) ==
    (CHOOSE the \in {IF i > Len(s) THEN acc ELSE U64SumFrom(s, i + 1, U64Add(acc, s[i])) :
         i \in {i0}, acc \in {acc0}} : TRUE)

\* Iterator::sum::<u64> when overflow wraps
U64Sum(s0) == (CHOOSE the \in {U64SumFrom(s, 1, <<>>) : s \in {Collect(s0)}} : TRUE)

\* `as u64`, `as u8` and `as u32` on an f64: toward zero, saturating
FToU64(a0) ==
    (CHOOSE the \in {IF a.sgn < 0 THEN <<>>
         ELSE (CHOOSE the \in {IF BCmp(t, U64Max) > 0 THEN U64Max ELSE t : t \in {FTrunc(a)}} : TRUE) :
         a \in {a0}} : TRUE)

FToU8(a0) ==
    (CHOOSE the \in {IF a.sgn < 0 THEN 0
         ELSE (CHOOSE the \in {IF BCmp(t, <<255>>) > 0 THEN 255 ELSE BVal(t) : t \in {FTrunc(a)}} : TRUE) :
         a \in {a0}} : TRUE)

\* the operands of `as u32` in calculate_credit_score are products of a u8,
\* far below 2^32
FToU32(a0) == (CHOOSE the \in {IF a.sgn < 0 THEN 0 ELSE BVal(FTrunc(a)) : a \in {a0}} : TRUE)

\* the f64 a decimal literal n/d denotes: the nearest one
FLit(n, d) == FDiv(FFromInt(n), FFromInt(d))

RECURSIVE FSumFrom(_, _, _)
FSumFrom(s, i0, acc0) ==
    (CHOOSE the \in {IF i > Len(s) THEN acc ELSE FSumFrom(s, i + 1, FAdd(acc, s[i])) :
         i \in {i0}, acc \in {acc0}} : TRUE)

\* Iterator::sum::<f64>: a left fold from 0.0
FSum(s0) == (CHOOSE the \in {FSumFrom(s, 1, FZero) : s \in {Collect(s0)}} : TRUE)

RECURSIVE Flatten(_)
Flatten(ss0) ==
    (CHOOSE the \in {IF ss = <<>> THEN <<>> ELSE Head(ss) \o Flatten(Tail(ss)) : ss \in {Collect(ss0)}} : TRUE)

RECURSIVE IterationOrders(_)
\* every order in which the elements of a finite set can be visited
IterationOrders(S) ==
    IF S = {} THEN {<<>>}
    ELSE UNION {{<<x>> \o rest : rest \in IterationOrders(S \ {x})} : x \in S}

Reverse(s) == [i \in DOMAIN s |-> s[Len(s) + 1 - i]]

---------------------------------------------------------------------------
(* Scoring kernel: methods/guest/src/main.rs                               *)

SecondsPerDay == 24 * 60 * 60

VolumeRanges == <<"VeryLow", "Low", "Medium", "High", "VeryHigh">>
GrowthTrends == <<"Declining", "Stable", "Growing", "Rapid">>

\* a filter that lets only Payments through
PaymentsOnly(txs) ==
    SelectSeq(txs, LAMBDA t : t.amount # <<>> /\ t.transaction_type = "Payment")

\* main, lines 61-66: the filter
ValidTransactions(txs) ==
    SelectSeq(txs, LAMBDA t : t.amount # <<>>
                              /\ t.transaction_type \in {"Payment", "Reversal"})

DayOf(t) == TruncDiv(t.timestamp, SecondsPerDay)

\* group_by_day: day index -> amounts of that day, in input order
group_by_day(txs) ==
    [d \in {DayOf(txs[i]) : i \in DOMAIN txs} |->
        LET onDay == SelectSeq(txs, LAMBDA t : DayOf(t) = d)
        IN  [i \in DOMAIN onDay |-> onDay[i].amount]]

calculate_days_between(start, end) ==
    LET diff == end - start
    IN  IF diff <= 0 THEN 1
        ELSE LET days == TruncDiv(diff, SecondsPerDay)
             IN  IF days > 1 THEN days ELSE 1

categorize_volume(monthly_volume) ==
    (CHOOSE the \in {IF BCmp(volume_ksh, BN(50000)) < 0 THEN "VeryLow"
         ELSE IF BCmp(volume_ksh, BN(250000)) < 0 THEN "Low"
         ELSE IF BCmp(volume_ksh, BN(1000000)) < 0 THEN "Medium"
         ELSE IF BCmp(volume_ksh, BN(5000000)) < 0 THEN "High"
         ELSE "VeryHigh" : volume_ksh \in {BDivSmall(monthly_volume, 100).q}} : TRUE)

\* calculate_consistency, lines 221-231: from the variance on
ConsistencyOf(mean, variance) ==
    (CHOOSE the \in {(CHOOSE the \in {(CHOOSE the \in {FToU8(FMin(FMax(score, FZero), FFromInt(100))) :
                   score \in {FMul(FSub(FFromInt(1), FMin(coefficient_of_variation, FFromInt(1))),
                                   FFromInt(100))}} : TRUE) :
              coefficient_of_variation \in {FDiv(std_dev, mean)}} : TRUE) :
         std_dev \in {FSqrt(variance)}} : TRUE)

\* lines 215-218: the square of the difference of x and the mean
SquaredDiff(x, mean) == (CHOOSE the \in {FMul(diff, diff) : diff \in {FSub(FFromBN(x), mean)}} : TRUE)

\* lines 213-219: the variance of the daily totals
Variance(daily_totals, mean, len) ==
    (CHOOSE the \in {FDiv(sum, len) :
         sum \in {FSum([i \in DOMAIN daily_totals |-> SquaredDiff(daily_totals[i], mean)])}} : TRUE)

\* calculate_consistency; iteration lists the keys of daily_volumes in the
\* order daily_volumes.values() visits them
calculate_consistency(daily_volumes, iteration) ==
    IF iteration = <<>> THEN 0
    ELSE (CHOOSE the \in {(CHOOSE the \in {IF mean.m = <<>> THEN 0
                   ELSE (CHOOSE the \in {ConsistencyOf(mean, variance) :
                             variance \in {Variance(daily_totals, mean, len)}} : TRUE) :
                   mean \in {FDiv(FFromBN(U64Sum(daily_totals)), len)}} : TRUE) :
              daily_totals \in {Collect([i \in DOMAIN iteration |->
                                             U64Sum(daily_volumes[iteration[i]])])},
              len \in {FFromInt(Len(iteration))}} : TRUE)

\* calculate_growth_trend, lines 262-275: the classification
GrowthOf(growth_rate0) ==
    (CHOOSE the \in {IF FCmp(growth_rate, FLit(-2, 10)) < 0 THEN "Declining"
         ELSE IF FCmp(growth_rate, FLit(1, 10)) < 0 THEN "Stable"
         ELSE IF FCmp(growth_rate, FLit(5, 10)) < 0 THEN "Growing"
         ELSE "Rapid" : growth_rate \in {growth_rate0}} : TRUE)

\* lines 243-260: the average over the third of the sorted days that starts
\* after `skip` days
PeriodAverage(daily_volumes, sorted_days, third, skip) ==
    FDiv(FFromBN(U64Sum(Flatten([i \in 1..third |-> daily_volumes[sorted_days[skip + i]]]))),
         FFromInt(third))

\* calculate_growth_trend
calculate_growth_trend(daily_volumes) ==
    (CHOOSE the \in {IF Len(sorted_days) < 2 THEN "Stable"
         ELSE IF Len(sorted_days) \div 3 = 0 THEN "Stable"
         ELSE (CHOOSE the \in {IF avg[1].m = <<>> THEN "Stable"
                   ELSE GrowthOf(FDiv(FSub(avg[2], avg[1]), avg[1])) :
                   avg \in {Collect([p \in 1..2 |->
                               PeriodAverage(daily_volumes, sorted_days,
                                             Len(sorted_days) \div 3,
                                             IF p = 1 THEN 0
                                             ELSE Len(sorted_days)
                                                  - Len(sorted_days) \div 3)])}} : TRUE) :
         sorted_days \in {SortedSeq(DOMAIN daily_volumes)}} : TRUE)

\* a volume component that ignores the range
VolumePointsFlat(volume_range) == 5

VolumePoints(volume_range) ==
    CASE volume_range = "VeryLow"  -> 5
      [] volume_range = "Low"      -> 10
      [] volume_range = "Medium"   -> 20
      [] volume_range = "High"     -> 25
      [] volume_range = "VeryHigh" -> 30

GrowthPoints(growth_trend) ==
    CASE growth_trend = "Declining" -> 0
      [] growth_trend = "Stable"    -> 5
      [] growth_trend = "Growing"   -> 7
      [] growth_trend = "Rapid"     -> 10

\* calculate_credit_score, lines 297-310: (score as f64 / 100.0 * weight) as u32
WeightedPoints(score, weight) ==
    FToU32(FMul(FDiv(FFromInt(score), FFromInt(100)), FFromInt(weight)))

\* a score that is zero whatever the metrics are
ZeroScore(volume_range, consistency_score, active_days_percentage, growth_trend, customer_diversity_score) == 0

calculate_credit_score(volume_range, consistency_score, active_days_percentage, growth_trend, customer_diversity_score) ==
    (CHOOSE the \in {IF volume_points > 0
         THEN (IF total > volume_points THEN total ELSE volume_points)
         ELSE 0 :
         volume_points \in {VolumePoints(volume_range)},
         total \in {VolumePoints(volume_range)
                    + FToU32(FMul(FFromInt(consistency_score), FLit(3, 10)))
                    + WeightedPoints(active_days_percentage, 20)
                    + GrowthPoints(growth_trend)
                    + WeightedPoints(customer_diversity_score, 10)}} : TRUE)

ZeroHash == [i \in 1..32 |-> 0]

\* a null output that carries the epoch instead of the input's timestamps
EpochOutput(now_ts) ==
    [till_number_hash |-> ZeroHash,
     period_start |-> 0,
     period_end   |-> 0,
     credit_score |-> 0,
     metrics |-> [monthly_volume_range     |-> "VeryLow",
                  consistency_score        |-> 0,
                  growth_trend             |-> "Declining",
                  active_days_percentage   |-> 0,
                  customer_diversity_score |-> 0]]

\* main, lines 68-85: the output committed when nothing passes the filter
NullOutput(now_ts) ==
    [till_number_hash |-> ZeroHash,
     period_start |-> now_ts,
     period_end   |-> now_ts,
     credit_score |-> 0,
     metrics |-> [monthly_volume_range     |-> "VeryLow",
                  consistency_score        |-> 0,
                  growth_trend             |-> "Declining",
                  active_days_percentage   |-> 0,
                  customer_diversity_score |-> 0]]

\* ((count as f64 / of as f64) * 100.0) as u8: main, lines 113 and 127
Percentage(count, of) ==
    FToU8(FMul(FDiv(FFromInt(count), FFromInt(of)), FFromInt(100)))

\* the orders of a day set that the model explores: every order of a small
\* set, the ascending and the descending order of a larger one
DayOrders(days) ==
    IF Cardinality(days) <= MaxShuffledDays THEN IterationOrders(days)
    ELSE {SortedSeq(days), Reverse(SortedSeq(days)) \o <<>>}

\* main, line 97: whether the sum of the amounts leaves u64
SumOverflows(valid_transactions) ==
    BCmp(BSum([i \in DOMAIN valid_transactions |-> valid_transactions[i].amount]),
         U64Max) > 0

\* What one execution of the guest adds to its input: the order in which
\* the HashMap of daily volumes is iterated (std seeds its hasher from the
\* zkVM's random source) and the build's overflow-checks setting.  The
\* setting shows only when the sum overflows; on every other input one run
\* stands for both settings.
Runs(input) ==
    [iteration : DayOrders(DOMAIN group_by_day(ValidTransactions(input))),
     overflow_checks : IF SumOverflows(ValidTransactions(input)) THEN BOOLEAN ELSE {FALSE}]

\* the guest stopped by a panic: nothing is committed
Panic == [panic |-> TRUE]

\* main, lines 95-103: (total_volume as f64 / days_in_period as f64) * 30.0
\* both operands are u64 values
MonthlyVolume(total_volume, days_in_period) ==
    IF days_in_period # <<>>
    THEN FMul(FDiv(FFromBN(total_volume), FFromBN(days_in_period)), FFromInt(30))
    ELSE FZero

\* main, lines 105-130: the BusinessMetrics of the filtered transactions
MetricsOf(valid_transactions, daily_volumes, days_in_period, iteration) ==
    [monthly_volume_range |->
         categorize_volume(FToU64(MonthlyVolume(
             U64Sum([i \in DOMAIN valid_transactions |-> valid_transactions[i].amount]),
             BN(days_in_period)))),
     consistency_score |-> calculate_consistency(daily_volumes, iteration),
     growth_trend |-> calculate_growth_trend(daily_volumes),
     active_days_percentage |->
         IF days_in_period > 0
         THEN Percentage(Cardinality(DOMAIN daily_volumes), days_in_period)
         ELSE 0,
     customer_diversity_score |->
         Percentage(Cardinality({valid_transactions[i].reference :
                                     i \in DOMAIN valid_transactions}),
                    Len(valid_transactions))]

\* main, lines 87-155: the output for a nonempty list of filtered transactions
ScoreValid(valid_transactions, iteration) ==
    (CHOOSE the \in {(CHOOSE the \in {[till_number_hash |-> ZeroHash,
               period_start |-> period_start,
               period_end   |-> period_end,
               credit_score |-> calculate_credit_score(
                   metrics.monthly_volume_range, metrics.consistency_score,
                   metrics.active_days_percentage, metrics.growth_trend,
                   metrics.customer_diversity_score),
               metrics |-> metrics] :
              metrics \in {MetricsOf(valid_transactions, group_by_day(valid_transactions),
                                     calculate_days_between(period_start, period_end),
                                     iteration)}} : TRUE) :
         period_start \in {SetMin({valid_transactions[i].timestamp :
                                       i \in DOMAIN valid_transactions})},
         period_end \in {SetMax({valid_transactions[i].timestamp :
                                     i \in DOMAIN valid_transactions})}} : TRUE)

\* main: the guest program, from env::read to env::commit
GuestMain(input0, run0) ==
    (CHOOSE the \in {IF valid_transactions = <<>>
         THEN NullOutput(IF input = <<>> THEN 0
                         ELSE SetMax({input[i].timestamp : i \in DOMAIN input}))
         ELSE IF run.overflow_checks /\ SumOverflows(valid_transactions) THEN Panic
         ELSE ScoreValid(valid_transactions, run.iteration) :
         input \in {input0}, run \in {run0},
         valid_transactions \in {ValidTransactions(input0)}} : TRUE)

\* every output the guest can commit for an input
GuestOutputs(input) == {GuestMain(input, run) : run \in Runs(input)} \ {Panic}

---------------------------------------------------------------------------
(* Values shared by the pipeline *)

\* Option<T>: None is the empty sequence, Some(x) the one-element sequence
None == <<>>
Some(x) == <<x>>

\* Strings that travel as identifiers.  A session id renders as a 36-character
\* UUID, a verification code is 12 characters of URL-safe base64, anything
\* else is free text; only the first kind parses with Uuid::parse_str.
UuidStr(i) == [kind |-> "uuid", n |-> i]
CodeStr(j) == [kind |-> "code", n |-> j]
TextStr    == [kind |-> "text", n |-> 0]
ParsesAsUuid(s) == s.kind = "uuid"

Workers == {"w1", "w2"}
Callers == {"u1"}                      \* authenticated users issuing requests
NilId   == "nil"                       \* Uuid::nil(), the direct-proof user and till
InitialTills == [t1 |-> "u1", t2 |-> "u2"]   \* business_tills: till -> owner
Instants == {0, 400}                   \* clock readings, in days
Codes == {CodeStr(j) : j \in 1..MaxCode}

NoReply == [op |-> "none"]
NoJob   == -1

---------------------------------------------------------------------------
(* zkVM wrapper: api/src/services/proof.rs, methods/guest/src/main.rs      *)

GUEST_CODE_FOR_ZK_PROOF_ID == "guest_image_id"

IndexOf(seq, v) == (CHOOSE i \in DOMAIN seq : seq[i] = v) - 1

\* an i64 as two journal words: low word, then the sign extension
I64Words(x) == <<x, IF x < 0 THEN -1 ELSE 0>>

\* env::commit(&output): the guest's ProofOutput serialized field by field,
\* in declaration order, one 32-bit word per u8/u32/enum tag, no field names
GuestJournal(o0) ==
    (CHOOSE the \in {o.till_number_hash
         \o I64Words(o.period_start)
         \o I64Words(o.period_end)
         \o << o.credit_score,
               IndexOf(VolumeRanges, o.metrics.monthly_volume_range),
               o.metrics.consistency_score,
               IndexOf(GrowthTrends, o.metrics.growth_trend),
               o.metrics.active_days_percentage,
               o.metrics.customer_diversity_score >> : o \in {o0}} : TRUE)

\* receipt.journal.decode::<ProofOutput>() with the HOST's ProofOutput
\* {credit_score: u32, metrics: BusinessMetrics, receipt_data: Option<Vec<u8>>}:
\* the same positional format, read from the first word on
HostDecode(journal0) ==
    (CHOOSE the \in {IF Len(journal) < 7 THEN [ok |-> FALSE]
         ELSE IF journal[2] \notin 0..4 \/ journal[4] \notin 0..3 THEN [ok |-> FALSE]
         ELSE IF journal[3] \notin 0..255 \/ journal[5] \notin 0..255
                 \/ journal[6] \notin 0..255 THEN [ok |-> FALSE]
         ELSE IF journal[7] \notin {0, 1} THEN [ok |-> FALSE]
         ELSE IF journal[7] = 1 /\ (Len(journal) < 8 \/ journal[8] < 0
                                    \/ Len(journal) < 8 + journal[8]) THEN [ok |-> FALSE]
         ELSE [ok |-> TRUE,
               credit_score |-> journal[1],
               metrics |-> [monthly_volume_range     |-> VolumeRanges[journal[2] + 1],
                            consistency_score        |-> journal[3],
                            growth_trend             |-> GrowthTrends[journal[4] + 1],
                            active_days_percentage   |-> journal[5],
                            customer_diversity_score |-> journal[6]],
               receipt_data |-> IF journal[7] = 0 THEN None
                                ELSE Some(SubSeq(journal, 9, 8 + journal[8]))] :
         journal \in {journal0}} : TRUE)

\* the journal decoded with the guest's own ProofOutput layout
JournalOutput(journal0) ==
    (CHOOSE the \in {[credit_score |-> journal[37],
          metrics |-> [monthly_volume_range     |-> VolumeRanges[journal[38] + 1],
                       consistency_score        |-> journal[39],
                       growth_trend             |-> GrowthTrends[journal[40] + 1],
                       active_days_percentage   |-> journal[41],
                       customer_diversity_score |-> journal[42]]] :
         journal \in {journal0}} : TRUE)

\* the seal of a receipt: a proof that the program with this image id
\* committed this journal; it verifies for that pair and for no other
Seal(image_id, journal) == [image_id |-> image_id, journal |-> journal]

\* prover.prove(env, ELF) on a run of the guest that committed output: a
\* receipt for the guest image over the journal
Prove(output) ==
    (CHOOSE the \in {[journal |-> journal, seal |-> Seal(GUEST_CODE_FOR_ZK_PROOF_ID, journal)] :
         journal \in {GuestJournal(output)}} : TRUE)

\* receipt.verify(image_id)
ReceiptVerifies(receipt, image_id) ==
    receipt.seal = Seal(image_id, receipt.journal)

\* bincode::serialize of the journal alone, which is no Receipt
SerializeJournalOnly(receipt) == [bincode |-> "journal", value |-> receipt.journal]

\* bincode::serialize / bincode::deserialize of a Receipt
SerializeReceipt(receipt) == [bincode |-> "receipt", value |-> receipt]
DeserializeReceipt(bytes) ==
    IF bytes.bincode = "receipt" THEN [ok |-> TRUE, receipt |-> bytes.value]
    ELSE [ok |-> FALSE]

\* ProofService::verify_receipt
verify_receipt(receipt_data) ==
    LET d == DeserializeReceipt(receipt_data)
    IN  IF ~d.ok THEN [ok |-> FALSE]
        ELSE [ok |-> TRUE, valid |-> ReceiptVerifies(d.receipt, GUEST_CODE_FOR_ZK_PROOF_ID)]

\* a prover wrapper that returns the scores without the receipt
execute_zkvm_proof_unreceipted(input, run) ==
    [ok |-> TRUE, credit_score |-> 0, metrics |-> NullOutput(0).metrics, receipt_data |-> None]

\* ProofService::execute_zkvm_proof_direct over one run of the guest; a
\* guest that panics makes prover.prove return an Err
execute_zkvm_proof_direct(input, run) ==
    (CHOOSE the \in {IF guest = Panic THEN [ok |-> FALSE]
         ELSE (CHOOSE the \in {IF ~ReceiptVerifies(receipt, GUEST_CODE_FOR_ZK_PROOF_ID) THEN [ok |-> FALSE]
                   ELSE (CHOOSE the \in {IF ~output.ok THEN [ok |-> FALSE]
                             ELSE [ok |-> TRUE,
                                   credit_score |-> output.credit_score,
                                   metrics      |-> output.metrics,
                                   receipt_data |-> Some(SerializeReceipt(receipt))] :
                             output \in {HostDecode(receipt.journal)}} : TRUE) :
                   receipt \in {Prove(guest)}} : TRUE) :
         guest \in {GuestMain(input, run)}} : TRUE)

---------------------------------------------------------------------------
(* Session store: the proof_sessions table *)

wvars == <<wpc, wjob, wtxs, wout, werr>>

SessionIds == DOMAIN sessions

\* Uuid::new_v4(): an id no row has
NextId == Cardinality(SessionIds) + 1

\* a proof_sessions table whose verification_code column is not unique
CodeNeverTaken(code) == FALSE

\* proof_sessions.verification_code is declared unique
CodeTaken(code) == \E i \in SessionIds : sessions[i].verification_code = code

SessionRow(user_id, till_id, status, verification_code, expires_at) ==
    [user_id |-> user_id, till_id |-> till_id, status |-> status,
     progress |-> None, credit_score |-> None, metrics |-> None,
     receipt_data |-> None, verification_code |-> verification_code,
     expires_at |-> expires_at, error_message |-> None, created_at |-> now]

Insert(table, id, row) == [i \in DOMAIN table \cup {id} |-> IF i = id THEN row ELSE table[i]]

\* a claim that creates the row it does not find
UpsertProcessing(table, id) ==
    IF id \in DOMAIN table THEN [table EXCEPT ![id].status = "processing"]
    ELSE Insert(table, id, SessionRow(NilId, NilId, "processing", CodeStr(1), now))

\* UPDATE proof_sessions SET status = 'processing' WHERE id = $1
\* (worker.rs:55 and proof.rs:60): no condition on the current status
UpdateProcessing(table, id) ==
    IF id \in DOMAIN table THEN [table EXCEPT ![id].status = "processing"] ELSE table

\* UPDATE proof_sessions SET progress = 50 WHERE id = $1
UpdateProgress(table, id) ==
    IF id \in DOMAIN table THEN [table EXCEPT ![id].progress = Some(50)] ELSE table

\* UPDATE proof_sessions SET status = 'completed', credit_score, metrics, receipt_data
UpdateCompleted(table, id, output) ==
    IF id \in DOMAIN table
    THEN [table EXCEPT ![id].status = "completed",
                       ![id].credit_score = Some(output.credit_score),
                       ![id].metrics = Some(output.metrics),
                       ![id].receipt_data = output.receipt_data]
    ELSE table

\* the failure write without its error_message column
UpdateFailedNoMessage(table, id, message) ==
    IF id \in DOMAIN table THEN [table EXCEPT ![id].status = "failed"] ELSE table

\* UPDATE proof_sessions SET status = 'failed', error_message = $1 WHERE id = $2
UpdateFailed(table, id, message) ==
    IF id \in DOMAIN table
    THEN [table EXCEPT ![id].status = "failed", ![id].error_message = Some(message)]
    ELSE table

SessionRetentionDays == 365     \* create_proof_session
DirectRetentionDays == 90       \* generate_direct

---------------------------------------------------------------------------
(* POST /api/proofs/generate: handlers/proofs.rs generate_proof with        *)
(* ProofService::create_proof_session.  The INSERT and the LPUSH are one   *)
(* step: nothing can name the new row before its id is on the queue, and   *)
(* the row left behind by a failed LPUSH is the state in between.          *)

TillArgs == {"t1", "t2", "t9", "not-a-uuid"}
TillArgParses(t) == t # "not-a-uuid"

GenReply(status, id) == [op |-> "generate_proof", status |-> status, session_id |-> id]

\* an ownership check that lets every caller through
AnyTill(till, user) == TRUE

\* proofs.rs:87-89: till_user_id != user_id is refused
TillIsOf(till, user) == tills[till] = user

GenerateProof(user, till) ==
    /\ UNCHANGED <<users, tills, transactions, wvars, pushes, now, kvars>>
    /\ \/ /\ ~TillArgParses(till)
          /\ reply' = GenReply("validation", NoJob)
          /\ UNCHANGED <<sessions, queue, faults, accepted>>
       \/ /\ TillArgParses(till) /\ till \notin DOMAIN tills
          /\ reply' = GenReply("not_found", NoJob)
          /\ UNCHANGED <<sessions, queue, faults, accepted>>
       \/ /\ TillArgParses(till) /\ till \in DOMAIN tills /\ ~TillIsOf(till, user)
          /\ reply' = GenReply("unauthorized", NoJob)
          /\ UNCHANGED <<sessions, queue, faults, accepted>>
       \/ /\ TillArgParses(till) /\ till \in DOMAIN tills /\ TillIsOf(till, user)
          /\ NextId <= MaxSessions
          /\ \E code \in Codes :
               LET id  == NextId
                   row == SessionRow(user, till, "pending", code, now + SessionRetentionDays)
               IN  \/ /\ CodeTaken(code)            \* unique violation on INSERT
                      /\ reply' = GenReply("database_error", NoJob)
                      /\ UNCHANGED <<sessions, queue, faults, accepted>>
                   \/ /\ ~CodeTaken(code)
                      /\ Len(queue) < MaxQueue
                      /\ sessions' = Insert(sessions, id, row)
                      /\ queue' = <<UuidStr(id)>> \o queue
                      /\ accepted' = accepted \cup {id}
                      /\ reply' = GenReply("ok", id)
                      /\ UNCHANGED faults
                   \/ /\ ~CodeTaken(code)           \* the LPUSH fails
                      /\ faults < MaxFaults
                      /\ faults' = faults + 1
                      /\ sessions' = Insert(sessions, id, row)
                      /\ reply' = GenReply("redis_error", NoJob)
                      /\ UNCHANGED <<queue, accepted>>
                   \/ /\ faults < MaxFaults         \* the INSERT fails
                      /\ faults' = faults + 1
                      /\ reply' = GenReply("database_error", NoJob)
                      /\ UNCHANGED <<sessions, queue, accepted>>

---------------------------------------------------------------------------
(* POST /api/data/upload: handlers/data.rs upload_data, one CSV record *)

HashedReference == [a |-> "sha256(a)", b |-> "sha256(b)", c |-> "sha256(c)"]

\* parsed CSV records offered for upload
UploadPool ==
    { [timestamp |-> 86400,  amount |-> 1, transaction_type |-> "Payment",  reference |-> "b"] }

\* a table without the unique constraint: no INSERT ever conflicts
NeverConflicts(till, row) == FALSE

\* ON CONFLICT (till_id, reference): the till already holds the reference
Conflicts(till, row) == \E r \in transactions[till] : r.reference = row.reference

UploadData(user, till, tx) ==
    /\ till \in DOMAIN tills /\ tills[till] = user
    /\ LET row == [tx EXCEPT !.reference = HashedReference[tx.reference]]
       IN  transactions' =
             IF Conflicts(till, row)
             THEN transactions                         \* ON CONFLICT DO NOTHING
             ELSE [transactions EXCEPT ![till] = @ \cup {row}]
    /\ reply' = [op |-> "upload_data", status |-> "ok"]
    /\ UNCHANGED <<sessions, users, tills, queue, wvars, faults, pushes, accepted, now, kvars>>

---------------------------------------------------------------------------
(* Worker::process_next_job, one action per await *)

Idle(w) ==
    /\ wpc'  = [wpc  EXCEPT ![w] = "idle"]
    /\ wjob' = [wjob EXCEPT ![w] = NoJob]
    /\ wtxs' = [wtxs EXCEPT ![w] = <<>>]
    /\ wout' = [wout EXCEPT ![w] = None]
    /\ werr' = [werr EXCEPT ![w] = None]

Goto(w, pc) == wpc' = [wpc EXCEPT ![w] = pc]

Fault == faults < MaxFaults /\ faults' = faults + 1

\* worker.rs:45-52: BRPOP takes the right end; a value that is no UUID is an Err
WorkerPop(w) ==
    /\ wpc[w] = "idle" /\ queue # <<>>
    /\ LET entry == queue[Len(queue)]
       IN  /\ queue' = SubSeq(queue, 1, Len(queue) - 1)
           /\ IF ParsesAsUuid(entry)
              THEN /\ Goto(w, "claim")
                   /\ wjob' = [wjob EXCEPT ![w] = entry.n]
              ELSE UNCHANGED <<wpc, wjob>>
    /\ reply' = NoReply
    /\ UNCHANGED <<sessions, users, tills, transactions, wtxs, wout, werr, faults,
                   pushes, accepted, now, kvars>>

\* worker.rs:54-58
WorkerClaim(w) ==
    /\ wpc[w] = "claim"
    /\ \/ /\ sessions' = UpdateProcessing(sessions, wjob[w])
          /\ Goto(w, "load")
          /\ UNCHANGED <<wjob, wtxs, wout, werr, faults>>
       \/ /\ Fault /\ Idle(w) /\ UNCHANGED sessions
    /\ reply' = NoReply
    /\ UNCHANGED <<users, tills, transactions, queue, pushes, accepted, now, kvars>>

\* the rows of a till ORDER BY timestamp ASC; ties come in any order
RECURSIVE OrderedByTimestamp(_)
OrderedByTimestamp(rows) ==
    IF rows = {} THEN {<<>>}
    ELSE LET first == {r \in rows : \A q \in rows : r.timestamp <= q.timestamp}
         IN  UNION {{<<r>> \o rest : rest \in OrderedByTimestamp(rows \ {r})} : r \in first}

\* worker.rs:60-97: SELECT till_id, then SELECT the till's transactions
WorkerLoad(w) ==
    /\ wpc[w] = "load"
    /\ \/ /\ wjob[w] \notin SessionIds               \* no such row: Ok(true)
          /\ Idle(w) /\ UNCHANGED faults
       \/ /\ wjob[w] \in SessionIds
          /\ \E rows \in OrderedByTimestamp(transactions[sessions[wjob[w]].till_id]) :
                wtxs' = [wtxs EXCEPT ![w] = rows]
          /\ Goto(w, "progress")
          /\ UNCHANGED <<wjob, wout, werr, faults>>
       \/ /\ Fault /\ Idle(w)
    /\ reply' = NoReply
    /\ UNCHANGED <<sessions, users, tills, transactions, queue, pushes, accepted, now, kvars>>

\* worker.rs:99-103
WorkerProgress(w) ==
    /\ wpc[w] = "progress"
    /\ \/ /\ sessions' = UpdateProgress(sessions, wjob[w])
          /\ Goto(w, "generate_proof")
          /\ UNCHANGED <<wjob, wtxs, wout, werr, faults>>
       \/ /\ Fault /\ Idle(w) /\ UNCHANGED sessions
    /\ reply' = NoReply
    /\ UNCHANGED <<users, tills, transactions, queue, pushes, accepted, now, kvars>>

\* proof.rs:59-63, the first statement of ProofService::generate_proof;
\* its Err is caught by the worker's match (worker.rs:110)
WorkerGenerateProof(w) ==
    /\ wpc[w] = "generate_proof"
    /\ \/ /\ sessions' = UpdateProcessing(sessions, wjob[w])
          /\ Goto(w, "prove")
          /\ UNCHANGED <<werr, faults>>
       \/ /\ Fault /\ UNCHANGED sessions
          /\ Goto(w, "failed")
          /\ werr' = [werr EXCEPT ![w] = Some("database error")]
    /\ reply' = NoReply
    /\ UNCHANGED <<users, tills, transactions, queue, wjob, wtxs, wout, pushes,
                   accepted, now, kvars>>

\* proof.rs:65-76: models::Transaction -> TransactionInput
ProofInputOf(rows) ==
    [i \in DOMAIN rows |->
        [timestamp |-> rows[i].timestamp, amount |-> I64AsU64(rows[i].amount),
         transaction_type |-> rows[i].transaction_type,
         reference |-> rows[i].reference]]

\* every row list a worker can load, and generate_proof's proof for it
LoadableRows ==
    UNION {OrderedByTimestamp(S) :
             S \in SUBSET {[tx EXCEPT !.reference = HashedReference[tx.reference]] : tx \in UploadPool}}
WorkerProofs ==
    [rows \in LoadableRows |->
        {execute_zkvm_proof_direct(ProofInputOf(rows), run) : run \in Runs(ProofInputOf(rows))}]

\* proof.rs:78-79: execute_zkvm_proof; the prover may also fail on its own
WorkerProve(w) ==
    /\ wpc[w] = "prove"
    /\ \E output \in WorkerProofs[wtxs[w]] :
           \/ /\ output.ok
              /\ wout' = [wout EXCEPT ![w] = Some(output)]
              /\ Goto(w, "store")
              /\ UNCHANGED werr
           \/ /\ ~output.ok
              /\ Goto(w, "failed")
              /\ werr' = [werr EXCEPT ![w] = Some("decode error")]
              /\ UNCHANGED wout
           \/ /\ Goto(w, "failed")
              /\ werr' = [werr EXCEPT ![w] = Some("prover error")]
              /\ UNCHANGED wout
    /\ reply' = NoReply
    /\ UNCHANGED <<sessions, users, tills, transactions, queue, wjob, wtxs, faults,
                   pushes, accepted, now, kvars>>

\* proof.rs:81-99
WorkerStore(w) ==
    /\ wpc[w] = "store"
    /\ \/ /\ sessions' = UpdateCompleted(sessions, wjob[w], wout[w][1])
          /\ Idle(w) /\ UNCHANGED faults
       \/ /\ Fault /\ UNCHANGED sessions
          /\ Goto(w, "failed")
          /\ werr' = [werr EXCEPT ![w] = Some("database error")]
          /\ UNCHANGED <<wjob, wtxs, wout>>
    /\ reply' = NoReply
    /\ UNCHANGED <<users, tills, transactions, queue, pushes, accepted, now, kvars>>

\* worker.rs:110-119
WorkerFailed(w) ==
    /\ wpc[w] = "failed"
    /\ \/ /\ sessions' = UpdateFailed(sessions, wjob[w], werr[w][1])
          /\ Idle(w) /\ UNCHANGED faults
       \/ /\ Fault /\ Idle(w) /\ UNCHANGED sessions
    /\ reply' = NoReply
    /\ UNCHANGED <<users, tills, transactions, queue, pushes, accepted, now, kvars>>

---------------------------------------------------------------------------
(* The queue's other producers and the clock *)

\* proof_queue is a plain Redis list: an entry may be the id of a session
\* already delivered, an id no row carries, or text that is no UUID
ExternalEntries == {UuidStr(i) : i \in SessionIds} \cup {UuidStr(0), TextStr}

ExternalPush(entry) ==
    /\ pushes < MaxExternalPush
    /\ Len(queue) < MaxQueue
    /\ pushes' = pushes + 1
    /\ queue' = <<entry>> \o queue
    /\ reply' = NoReply
    /\ UNCHANGED <<sessions, users, tills, transactions, wvars, faults, accepted, now, kvars>>

Tick ==
    /\ \E t \in Instants : t > now /\ now' = t
    /\ reply' = NoReply
    /\ UNCHANGED <<sessions, users, tills, transactions, queue, wvars, faults, pushes,
                   accepted, kvars>>


---------------------------------------------------------------------------
(* POST /api/proofs/generate-direct: handlers/proofs.rs generate_direct.   *)
(* The proof comes first; then the three INSERTs, any of which may fail.   *)

\* caller-supplied transaction lists
DirectInputs ==
    { <<>>,
      <<[timestamp |-> 86400, amount |-> BN(1), transaction_type |-> "Payment", reference |-> "b"]>> }

WithDummyTill(table) ==
    [t \in DOMAIN table \cup {NilId} |-> IF t \in DOMAIN table THEN table[t] ELSE NilId]

\* execute_zkvm_proof_direct on each list a caller may send
DirectProofs ==
    [input \in DirectInputs |->
        {execute_zkvm_proof_direct(input, run) : run \in Runs(input)}]

DirectReply(status, id) == [op |-> "generate_direct", status |-> status, session_id |-> id]

GenerateDirect(input) ==
    /\ UNCHANGED <<transactions, queue, wvars, pushes, accepted, now, kvars>>
    /\ \E proof_output \in DirectProofs[input] :
           \/ /\ reply' = DirectReply("internal_error", NoJob)    \* the prover fails
              /\ UNCHANGED <<sessions, users, tills, faults>>
           \/ /\ ~proof_output.ok
              /\ reply' = DirectReply("internal_error", NoJob)
              /\ UNCHANGED <<sessions, users, tills, faults>>
           \/ /\ proof_output.ok /\ Fault                          \* INSERT INTO users fails
              /\ reply' = DirectReply("database_error", NoJob)
              /\ UNCHANGED <<sessions, users, tills>>
           \/ /\ proof_output.ok /\ Fault                          \* INSERT INTO business_tills fails
              /\ users' = users \cup {NilId}
              /\ reply' = DirectReply("database_error", NoJob)
              /\ UNCHANGED <<sessions, tills>>
           \/ /\ proof_output.ok /\ Fault                          \* INSERT INTO proof_sessions fails
              /\ users' = users \cup {NilId}
              /\ tills' = WithDummyTill(tills)
              /\ reply' = DirectReply("database_error", NoJob)
              /\ UNCHANGED sessions
           \/ /\ proof_output.ok
              /\ NextId <= MaxSessions
              /\ users' = users \cup {NilId}
              /\ tills' = WithDummyTill(tills)
              /\ UNCHANGED faults
              /\ \E code \in Codes :
                    IF CodeTaken(code)
                    THEN /\ reply' = DirectReply("database_error", NoJob)
                         /\ UNCHANGED sessions
                    ELSE /\ sessions' = Insert(sessions, NextId,
                                [SessionRow(NilId, NilId, "completed", code,
                                            now + DirectRetentionDays)
                                 EXCEPT !.credit_score = Some(proof_output.credit_score),
                                        !.metrics = Some(proof_output.metrics),
                                        !.receipt_data = proof_output.receipt_data])
                         /\ reply' = DirectReply("ok", NextId)

---------------------------------------------------------------------------
(* Read side: verification.rs, lender.rs, proofs.rs *)

UnwrapOr(opt, default) == IF opt = None THEN default ELSE opt[1]
EmptyJson == [json |-> "{}"]

\* strings a client may send as :code, :session_id or proof_id
RequestArgs == {UuidStr(i) : i \in 0..MaxSessions} \cup Codes \cup {TextStr}

\* the lookup without its status = 'completed' condition
AnyWithCode(code) == {i \in SessionIds : sessions[i].verification_code = code}

CompletedWithCode(code) ==
    {i \in SessionIds : sessions[i].verification_code = code
                        /\ sessions[i].status = "completed"}

\* GET /verify/:code
VerifyCodeResponse(code) ==
    IF CompletedWithCode(code) = {}
    THEN [op |-> "verify_code", arg |-> code, status |-> "not_found"]
    ELSE LET row == sessions[CHOOSE i \in CompletedWithCode(code) : TRUE]
         IN  [op |-> "verify_code", arg |-> code, status |-> "ok", valid |-> TRUE,
              credit_score |-> UnwrapOr(row.credit_score, 0),
              metrics |-> UnwrapOr(row.metrics, EmptyJson)]

\* POST /api/lender/verify: proof_id must parse as a UUID, and is then
\* matched as a string against the verification_code column
VerifyProofResponse(proof_id) ==
    IF ~ParsesAsUuid(proof_id)
    THEN [op |-> "verify_proof", arg |-> proof_id, status |-> "validation"]
    ELSE IF CompletedWithCode(proof_id) = {}
    THEN [op |-> "verify_proof", arg |-> proof_id, status |-> "not_found"]
    ELSE LET row == sessions[CHOOSE i \in CompletedWithCode(proof_id) : TRUE]
             checked == IF row.receipt_data = None THEN [ok |-> TRUE, valid |-> TRUE]
                        ELSE verify_receipt(row.receipt_data[1])
         IN  IF ~checked.ok
             THEN [op |-> "verify_proof", arg |-> proof_id, status |-> "internal_error"]
             ELSE [op |-> "verify_proof", arg |-> proof_id, status |-> "ok",
                   valid |-> checked.valid,
                   credit_score |-> UnwrapOr(row.credit_score, 0),
                   metrics |-> UnwrapOr(row.metrics, EmptyJson)]

\* GET /api/proofs/status/:session_id
ProofStatusResponse(session_id) ==
    IF ~ParsesAsUuid(session_id)
    THEN [op |-> "get_proof_status", arg |-> session_id, status |-> "validation"]
    ELSE IF session_id.n \notin SessionIds
    THEN [op |-> "get_proof_status", arg |-> session_id, status |-> "not_found"]
    ELSE LET row == sessions[session_id.n]
         IN  [op |-> "get_proof_status", arg |-> session_id, status |-> "ok",
              session_status |-> row.status, progress |-> row.progress,
              error |-> row.error_message]

\* GET /api/proofs/result/:session_id
ProofResultResponse(session_id) ==
    IF ~ParsesAsUuid(session_id)
    THEN [op |-> "get_proof_result", arg |-> session_id, status |-> "validation"]
    ELSE IF session_id.n \notin SessionIds \/ sessions[session_id.n].status # "completed"
    THEN [op |-> "get_proof_result", arg |-> session_id, status |-> "not_found"]
    ELSE LET row == sessions[session_id.n]
         IN  [op |-> "get_proof_result", arg |-> session_id, status |-> "ok",
              proof_id |-> UuidStr(session_id.n),
              credit_score |-> UnwrapOr(row.credit_score, 0),
              metrics |-> UnwrapOr(row.metrics, EmptyJson),
              verification_code |-> row.verification_code,
              expires_at |-> row.expires_at,
              receipt_data |-> row.receipt_data]

\* GET /api/lender/bulk-verify?ids=...: the raw parameter is a string, here
\* a sequence of tokens: a comma, a space, or the text of one candidate id
Comma == [kind |-> "comma", n |-> 0]
Space == [kind |-> "space", n |-> 0]

RECURSIVE SplitComma(_)
\* str::split(','): the pieces between commas, an empty piece included
SplitComma(tokens) ==
    IF \A k \in DOMAIN tokens : tokens[k] # Comma THEN <<tokens>>
    ELSE LET k == CHOOSE x \in DOMAIN tokens :
                     tokens[x] = Comma /\ \A y \in 1..(x - 1) : tokens[y] # Comma
         IN  <<SubSeq(tokens, 1, k - 1)>> \o SplitComma(SubSeq(tokens, k + 1, Len(tokens)))

RECURSIVE Trim(_)
\* str::trim
Trim(piece) ==
    IF piece = <<>> THEN piece
    ELSE IF Head(piece) = Space THEN Trim(Tail(piece))
    ELSE IF piece[Len(piece)] = Space THEN Trim(SubSeq(piece, 1, Len(piece) - 1))
    ELSE piece

\* the string a trimmed piece is: one id's text, or text that is no id
PieceString(piece) == IF Len(piece) = 1 THEN piece[1] ELSE TextStr

\* lender.rs:70
ProofIdsOf(ids) ==
    LET pieces == SplitComma(ids)
    IN  [i \in DOMAIN pieces |-> PieceString(Trim(pieces[i]))]

RECURSIVE BulkResults(_)
\* lender.rs:72-86: push every Ok response, skip every Err
BulkResults(proof_ids) ==
    IF proof_ids = <<>> THEN <<>>
    ELSE LET response == VerifyProofResponse(Head(proof_ids))
         IN  (IF response.status = "ok" THEN <<response>> ELSE <<>>)
             \o BulkResults(Tail(proof_ids))

RECURSIVE BulkResultsOrError(_)
\* the loop with `?` in place of the match: the first Err ends it
BulkResultsOrError(proof_ids) ==
    IF proof_ids = <<>> THEN [ok |-> TRUE, results |-> <<>>]
    ELSE LET response == VerifyProofResponse(Head(proof_ids))
             rest == BulkResultsOrError(Tail(proof_ids))
         IN  IF response.status # "ok" THEN [ok |-> FALSE, error |-> response.status]
             ELSE IF ~rest.ok THEN rest
             ELSE [ok |-> TRUE, results |-> <<response>> \o rest.results]

bulk_verify_propagating(params) ==
    IF params = None
    THEN [op |-> "bulk_verify", arg |-> params, status |-> "validation"]
    ELSE LET r == BulkResultsOrError(ProofIdsOf(params[1]))
         IN  IF r.ok THEN [op |-> "bulk_verify", arg |-> params, status |-> "ok",
                           results |-> r.results]
             ELSE [op |-> "bulk_verify", arg |-> params, status |-> r.error]

\* lender.rs bulk_verify; params is the ids parameter, None when it is missing
bulk_verify(params) ==
    IF params = None
    THEN [op |-> "bulk_verify", arg |-> params, status |-> "validation"]
    ELSE [op |-> "bulk_verify", arg |-> params, status |-> "ok",
          results |-> BulkResults(ProofIdsOf(params[1]))]

Answer(response) ==
    /\ reply' = response
    /\ UNCHANGED <<sessions, users, tills, transactions, queue, wvars, faults, pushes,
                   accepted, now, kvars>>

VerifyCode(code) == Answer(VerifyCodeResponse(code))
VerifyProof(proof_id) == Answer(VerifyProofResponse(proof_id))
GetProofStatus(session_id) == Answer(ProofStatusResponse(session_id))
GetProofResult(session_id) == Answer(ProofResultResponse(session_id))

---------------------------------------------------------------------------
(* The router: main.rs routes behind middleware/auth.rs auth_middleware.   *)
(* A path is its sequence of "/" and segment tokens; a path parameter is   *)
(* the token "*" and travels in the request's arg.                         *)

VerifyCodePath   == <<"/", "verify", "/", "*">>
ProofStatusPath  == <<"/", "api", "/", "proofs", "/", "status", "/", "*">>
ProofResultPath  == <<"/", "api", "/", "proofs", "/", "result", "/", "*">>
LenderVerifyPath == <<"/", "api", "/", "lender", "/", "verify">>
BulkVerifyPath   == <<"/", "api", "/", "lender", "/", "bulk-verify">>

\* auth.rs:18-25
public_paths ==
    { <<"/", "health">>,
      <<"/", "api", "/", "auth", "/", "request-otp">>,
      <<"/", "api", "/", "auth", "/", "verify-otp">>,
      <<"/", "api", "/", "proofs", "/", "generate-direct">>,
      <<"/", "api", "/", "proofs", "/", "status", "/">>,
      <<"/", "api", "/", "proofs", "/", "result", "/">> }

\* str::starts_with
StartsWith(path, prefix) ==
    Len(prefix) <= Len(path) /\ SubSeq(path, 1, Len(prefix)) = prefix

\* the Authorization header: absent, or a scheme and a token
AuthHeaders ==
    { None,
      Some([scheme |-> "Bearer", token |-> "signed"]),
      Some([scheme |-> "Bearer", token |-> "forged"]),
      Some([scheme |-> "Basic",  token |-> "signed"]) }

\* utils.rs verify_jwt: only a token signed with the configured secret decodes
verify_jwt(token) == token = "signed"

\* auth.rs:27-50: TRUE when the request is handed to next.run
auth_middleware(request) ==
    IF \E p \in public_paths : StartsWith(request.path, p) THEN TRUE
    ELSE IF request.authorization = None THEN FALSE
    ELSE IF request.authorization[1].scheme # "Bearer" THEN FALSE
    ELSE verify_jwt(request.authorization[1].token)

\* the handler main.rs:44-71 routes the path to
RouteResponse(request) ==
    CASE request.path = VerifyCodePath   -> VerifyCodeResponse(request.arg)
      [] request.path = ProofStatusPath  -> ProofStatusResponse(request.arg)
      [] request.path = ProofResultPath  -> ProofResultResponse(request.arg)
      [] request.path = LenderVerifyPath -> VerifyProofResponse(request.arg)
      [] request.path = BulkVerifyPath   -> bulk_verify(request.arg)

Unauthorized == [op |-> "auth_middleware", status |-> "unauthorized"]

\* raw ids parameters of at most MaxIdsLen tokens
IdTokens == {Comma, Space, TextStr} \cup {UuidStr(i) : i \in 1..MaxSessions}
BulkQueries ==
    {None} \cup {Some(ids) : ids \in UNION {[1..n -> IdTokens] : n \in 0..MaxIdsLen}}

Requests ==
    [path : {VerifyCodePath, ProofStatusPath, ProofResultPath, LenderVerifyPath},
     arg : RequestArgs,
     authorization : AuthHeaders]
    \cup [path : {BulkVerifyPath}, arg : BulkQueries, authorization : AuthHeaders]

\* one HTTP request through the middleware layer and, if admitted, its handler
Serve(request) ==
    /\ reply' = [op |-> "request", request |-> request,
                 response |-> IF auth_middleware(request)
                              THEN RouteResponse(request)
                              ELSE Unauthorized]
    /\ UNCHANGED <<sessions, users, tills, transactions, queue, wvars, faults, pushes,
                   accepted, now, kvars>>

---------------------------------------------------------------------------
(* The pipeline *)

Init ==
    /\ sessions = <<>>
    /\ users = {"u1", "u2"}
    /\ tills = InitialTills
    /\ transactions = [t \in {"t1", "t2", NilId} |-> {}]
    /\ queue = <<>>
    /\ wpc  = [w \in Workers |-> "idle"]
    /\ wjob = [w \in Workers |-> NoJob]
    /\ wtxs = [w \in Workers |-> <<>>]
    /\ wout = [w \in Workers |-> None]
    /\ werr = [w \in Workers |-> None]
    /\ faults = 0
    /\ pushes = 0
    /\ accepted = {}
    /\ now = 0
    /\ reply = NoReply
    /\ kinput = <<>>
    /\ koutput = [none |-> TRUE]

\* Spec: the queue pipeline.  Sessions are requested, transactions uploaded,
\* two workers consume proof_queue, the queue may carry entries generate_proof
\* did not push, and a bounded number of queue/database calls fail.
Next ==
    \/ \E u \in Callers, t \in TillArgs : GenerateProof(u, t)
    \/ \E u \in Callers, t \in DOMAIN tills, tx \in UploadPool : UploadData(u, t, tx)
    \/ \E w \in Workers : WorkerPop(w)
    \/ \E w \in Workers : WorkerClaim(w)
    \/ \E w \in Workers : WorkerLoad(w)
    \/ \E w \in Workers : WorkerProgress(w)
    \/ \E w \in Workers : WorkerGenerateProof(w)
    \/ \E w \in Workers : WorkerProve(w)
    \/ \E w \in Workers : WorkerStore(w)
    \/ \E w \in Workers : WorkerFailed(w)
    \/ \E e \in ExternalEntries : ExternalPush(e)

Spec == Init /\ [][Next]_vars

\* LiveSpec: Spec with the workers' scheduling.
\* Worker::run (worker.rs:22-39) is an endless loop around process_next_job:
\* a worker whose next await can complete does complete it.  Faults are
\* bounded by MaxFaults, so every failure is transient.
WorkerStep(w) ==
    \/ WorkerPop(w) \/ WorkerClaim(w) \/ WorkerLoad(w) \/ WorkerProgress(w)
    \/ WorkerGenerateProof(w) \/ WorkerProve(w) \/ WorkerStore(w) \/ WorkerFailed(w)

LiveSpec == Spec /\ \A w \in Workers : WF_vars(WorkerStep(w))

\* GatewaySpec: the read side.  Sessions come from both generate endpoints,
\* one worker drains the queue, the clock advances, and clients query the
\* status, result and verification endpoints.  Nothing else touches the queue.
GatewayWorker == "w1"

GatewayInit == Init

GatewayNext ==
    \/ \E u \in Callers, t \in TillArgs : GenerateProof(u, t)
    \/ \E input \in DirectInputs : GenerateDirect(input)
    \/ WorkerPop(GatewayWorker)
    \/ WorkerClaim(GatewayWorker)
    \/ WorkerLoad(GatewayWorker)
    \/ WorkerProgress(GatewayWorker)
    \/ WorkerGenerateProof(GatewayWorker)
    \/ WorkerProve(GatewayWorker)
    \/ WorkerStore(GatewayWorker)
    \/ WorkerFailed(GatewayWorker)
    \/ Tick
    \/ \E a \in RequestArgs : VerifyCode(a)
    \/ \E a \in RequestArgs : VerifyProof(a)
    \/ \E a \in RequestArgs : GetProofStatus(a)
    \/ \E a \in RequestArgs : GetProofResult(a)

GatewaySpec == GatewayInit /\ [][GatewayNext]_vars


\* RouterSpec: the HTTP surface.  Sessions come from both generate endpoints
\* and requests reach the read handlers through the authentication layer.
RouterNext ==
    \/ \E u \in Callers, t \in TillArgs : GenerateProof(u, t)
    \/ \E input \in DirectInputs : GenerateDirect(input)
    \/ \E request \in Requests : Serve(request)

RouterSpec == Init /\ [][RouterNext]_vars


---------------------------------------------------------------------------
(* Claims about the session state machine (Spec) *)

Terminal(status) == status \in {"completed", "failed"}

AllowedTransition(a, b) ==
    \/ a = b
    \/ a = "pending" /\ b = "processing"
    \/ a = "processing" /\ Terminal(b)

\* C1: across any sequence of operations, a session's status only changes
\* along pending -> processing, processing -> completed, processing -> failed;
\* it never moves backward and a completed or failed session keeps its status.
C1_StatusMonotonic ==
    [][\A i \in SessionIds :
          AllowedTransition(sessions[i].status, sessions'[i].status)]_vars

\* a worker that has claimed its session and not yet completed or failed it
InFlight(w) ==
    wpc[w] \in {"load", "progress", "generate_proof", "prove", "store", "failed"}

\* C2: at every moment at most one worker is between claiming a session and
\* completing or failing it, so no two workers generate a proof for the same
\* session at the same time and none is about to complete or fail a session
\* that another worker has in hand.
C2_SingleWriter ==
    \A w1, w2 \in Workers :
        (w1 # w2 /\ InFlight(w1) /\ InFlight(w2) /\ wjob[w1] \in SessionIds)
            => wjob[w1] # wjob[w2]

\* C3: when a worker claims a popped session id whose session is not pending,
\* the claim fails: the worker does not go on to proof generation and the
\* session row (status, score, metrics, receipt, error message) is unchanged.
C3_ClaimFailsUnlessPending ==
    [][\A w \in Workers :
          (/\ wpc[w] = "claim" /\ wpc'[w] # "claim"
           /\ wjob[w] \in SessionIds
           /\ sessions[wjob[w]].status # "pending")
          => (sessions'[wjob[w]] = sessions[wjob[w]] /\ wpc'[w] = "idle")]_vars

\* C4: in every reachable state, for every session, receipt_data and
\* credit_score are non-null exactly when the status is completed.
C4_ResultIffCompleted ==
    \A i \in SessionIds :
        IF sessions[i].status = "completed"
        THEN sessions[i].receipt_data # None /\ sessions[i].credit_score # None
        ELSE sessions[i].receipt_data = None /\ sessions[i].credit_score = None

\* C5: in every reachable state, for every session, error_message is non-null
\* exactly when the status is failed; no completed session carries an error.
C5_ErrorIffFailed ==
    \A i \in SessionIds :
        (sessions[i].error_message # None) <=> (sessions[i].status = "failed")

\* C6: every session accepted by POST /api/proofs/generate eventually reaches
\* completed or failed, when the workers keep running and queue or database
\* operations fail only transiently (a bounded number of times).
C6_AcceptedSessionsSettle ==
    \A i \in 1..MaxSessions :
        (i \in accepted) ~> (i \in SessionIds /\ Terminal(sessions[i].status))

\* the ProofOutput the guest committed to the journal of a stored receipt
CommittedOutput(receipt_data) ==
    JournalOutput(DeserializeReceipt(receipt_data).receipt.journal)

\* C9: for every completed session the stored credit_score and metrics equal
\* the credit_score and metrics of the ProofOutput in its receipt's journal.
C9_StoredEqualsJournal ==
    \A i \in SessionIds :
        (sessions[i].status = "completed" /\ sessions[i].receipt_data # None)
        => /\ sessions[i].credit_score
                = Some(CommittedOutput(sessions[i].receipt_data[1]).credit_score)
           /\ sessions[i].metrics
                = Some(CommittedOutput(sessions[i].receipt_data[1]).metrics)

\* C12: once a session's receipt_data has been written, no later operation
\* (a worker processing the session again, a second completion, a failure
\* write, direct proving) changes or clears it.
C12_ReceiptImmutable ==
    [][\A i \in SessionIds :
          sessions[i].receipt_data # None
          => sessions'[i].receipt_data = sessions[i].receipt_data]_vars

---------------------------------------------------------------------------
(* Claims about the read side (GatewaySpec) *)

\* C7: verify_code never answers with a valid result for a session whose
\* expires_at is earlier than the current time; it answers not-found, even
\* when the session is completed.
C7_ExpiredCodeNotFound ==
    (/\ reply.op = "verify_code"
     /\ \E i \in SessionIds : /\ sessions[i].verification_code = reply.arg
                              /\ now > sessions[i].expires_at)
    => reply.status = "not_found"

\* C10: for a completed session whose stored receipt verifies against the
\* program id, POST /api/lender/verify with that session's proof id answers
\* valid = true with the session's credit_score and metrics.
C10_LenderVerifyByProofId ==
    \A i \in SessionIds :
        (/\ reply.op = "verify_proof"
         /\ reply.arg = UuidStr(i)
         /\ sessions[i].status = "completed"
         /\ sessions[i].receipt_data # None
         /\ verify_receipt(sessions[i].receipt_data[1]) = [ok |-> TRUE, valid |-> TRUE])
        => /\ reply.status = "ok"
           /\ reply.valid
           /\ Some(reply.credit_score) = sessions[i].credit_score
           /\ Some(reply.metrics) = sessions[i].metrics

\* C16: verify_code answers not-found, and never a response with valid =
\* true, when the code matches no session or matches a session whose status
\* is pending, processing or failed.
C16_VerifyCodeOnlyCompleted ==
    (/\ reply.op = "verify_code"
     /\ \A i \in SessionIds :
            sessions[i].verification_code = reply.arg
            => sessions[i].status \in {"pending", "processing", "failed"})
    => /\ reply.status = "not_found"
       /\ "valid" \notin DOMAIN reply

C16_Witness ==
    /\ reply.op = "verify_code"
    /\ reply.status = "not_found"
    /\ \E i \in SessionIds : /\ sessions[i].verification_code = reply.arg
                             /\ sessions[i].status = "failed"

\* proof generation (ProofService::generate_proof) can fail from these steps
Proving(w) == wpc[w] \in {"generate_proof", "prove", "store"}

---------------------------------------------------------------------------
(* Claims about the router (RouterSpec) *)

\* C11: a request to GET /verify/:code that carries no bearer token reaches
\* the verification handler and is answered from the session data; the
\* authentication middleware does not reject it as unauthorized.
C11_VerifyCodeIsPublic ==
    (/\ reply.op = "request"
     /\ reply.request.path = VerifyCodePath
     /\ reply.request.authorization = None)
    => /\ reply.response # Unauthorized
       /\ reply.response = VerifyCodeResponse(reply.request.arg)

\* C13: in every reachable state no two distinct sessions, whether created
\* by create_proof_session or by generate_direct, have the same
\* verification_code.
C13_CodesUnique ==
    \A i, j \in SessionIds :
        i # j => sessions[i].verification_code # sessions[j].verification_code

C13_Witness ==
    \E i, j \in SessionIds :
        /\ sessions[i].user_id # NilId          \* from create_proof_session
        /\ sessions[j].user_id = NilId          \* from generate_direct
        /\ "status" \in DOMAIN reply
        /\ reply.status = "database_error"      \* a colliding INSERT was refused

\* C14: if the verification code generated for a new session equals the code
\* of an existing session, session creation generates a different code and
\* still succeeds; the collision is never returned to the caller as an error.
\* The only database error generate_proof may answer with is a failed
\* database call.
C14_CollisionRegenerates ==
    [][(reply'.op = "generate_proof" /\ reply'.status = "database_error")
       => faults' # faults]_vars

\* C19: create_proof_session inserts exactly one new session, with status
\* pending, a freshly generated verification code, null score, metrics,
\* receipt and error message, and expires_at equal to the creation time
\* plus 90 days.
C19_CreateProofSession ==
    [][(reply'.op = "generate_proof" /\ reply'.status = "ok")
       => /\ DOMAIN sessions' = SessionIds \cup {reply'.session_id}
          /\ reply'.session_id \notin SessionIds
          /\ \A i \in SessionIds : sessions'[i] = sessions[i]
          /\ LET row == sessions'[reply'.session_id]
             IN  /\ row.status = "pending"
                 /\ ~CodeTaken(row.verification_code)
                 /\ row.credit_score = None /\ row.metrics = None
                 /\ row.receipt_data = None /\ row.error_message = None
                 /\ row.created_at = now
                 /\ row.expires_at = now + 90]_vars

---------------------------------------------------------------------------
(* KernelSpec: the guest applied to every ProofInput of at most MaxTx      *)
(* transactions drawn from TxPool.                                         *)

Tx(ts, amt, ty, ref) ==
    [timestamp |-> ts, amount |-> BN(amt), transaction_type |-> ty, reference |-> ref]

\* Three consecutive Unix days (the last second of day 0, the first second
\* of days 1 and 2), a later day, a negative timestamp, and the entries the
\* filter drops.
TxPool ==
    { Tx(86399,  1, "Payment",  "a"),
      Tx(86400,  1, "Payment",  "b"),
      Tx(172800, 1, "Payment",  "c"),
      Tx(172800, 3, "Reversal", "a"),
      Tx(345600, 2, "Payment",  "b"),
      Tx(-1,     1, "Payment",  "c"),
      Tx(86400,  0, "Payment",  "a"),
      Tx(432000, 3, "Deposit",  "c") }

NoOutput == [none |-> TRUE]

\* a caller assembles the ProofInput one transaction at a time
KernelAddTx ==
    /\ Len(kinput) < MaxTx
    /\ \E t \in TxPool : kinput' = Append(kinput, t)
    /\ koutput' = NoOutput
    /\ UNCHANGED sysvars

\* the guest runs on the current input and commits its output
KernelRun ==
    /\ koutput = NoOutput
    /\ \E run \in Runs(kinput) : koutput' = GuestMain(kinput, run)
    /\ UNCHANGED <<kinput>>
    /\ UNCHANGED sysvars

KernelNext == KernelAddTx \/ KernelRun

KernelSpec == Init /\ [][KernelNext]_vars

---------------------------------------------------------------------------
(* Claims about the scoring kernel (KernelSpec) *)

Committed == koutput \notin {NoOutput, Panic}

\* C8: for every input the kernel's credit_score is between 0 and 100, and
\* whenever a transaction passes the filter it is at least the volume
\* component (5, 10, 20, 25 or 30 by volume range).
C8_ScoreBounds ==
    Committed =>
        /\ koutput.credit_score \in 0..100
        /\ ValidTransactions(kinput) # <<>>
             => koutput.credit_score >= VolumePoints(koutput.metrics.monthly_volume_range)

\* the transactions that take part in scoring: amount > 0, Payment or Reversal
Scored(input) ==
    SelectSeq(input, LAMBDA t : BCmp(t.amount, <<>>) > 0
                                /\ (t.transaction_type = "Payment"
                                    \/ t.transaction_type = "Reversal"))

\* the input with every Reversal entered as a Payment
ReversalsAsPayments(input) ==
    [i \in DOMAIN input |->
        IF input[i].transaction_type = "Reversal"
        THEN [input[i] EXCEPT !.transaction_type = "Payment"]
        ELSE input[i]]

\* C22: for every input with at least one transaction of amount > 0 and
\* type Payment or Reversal, the output equals the output of scoring only
\* those transactions (zero-amount transactions and other types change
\* nothing), and a Reversal counts exactly as a Payment of the same amount.
C22_OnlyScoredTransactionsCount ==
    (Committed /\ Scored(kinput) # <<>>) =>
        /\ GuestOutputs(kinput) = GuestOutputs(Scored(kinput))
        /\ GuestOutputs(kinput) = GuestOutputs(ReversalsAsPayments(kinput))
        /\ koutput \in GuestOutputs(Scored(kinput))

C22_Witness ==
    /\ Committed
    /\ \E i \in DOMAIN kinput : kinput[i].amount = <<>>
    /\ \E i \in DOMAIN kinput : kinput[i].transaction_type = "Deposit"
    /\ \E i \in DOMAIN kinput : kinput[i].transaction_type = "Reversal"
                                  /\ kinput[i].amount # <<>>
    /\ koutput.credit_score > 0

\* the largest timestamp of the input, 0 for the empty list
MaxInputTimestamp(input) ==
    IF input = <<>> THEN 0
    ELSE CHOOSE ts \in {input[i].timestamp : i \in DOMAIN input} :
             \A i \in DOMAIN input : input[i].timestamp <= ts

\* C23: for every input with no transaction of amount > 0 and type Payment
\* or Reversal (the empty list included) the kernel outputs credit_score 0,
\* period_start = period_end = the largest timestamp of the input (0 for
\* the empty list), an all-zero till_number_hash and the metrics
\* {VeryLow, 0, Declining, 0, 0}.
C23_NullOutput ==
    (koutput # NoOutput /\ Scored(kinput) = <<>>) =>
        /\ koutput # Panic
        /\ koutput.credit_score = 0
        /\ koutput.period_start = MaxInputTimestamp(kinput)
        /\ koutput.period_end = MaxInputTimestamp(kinput)
        /\ koutput.till_number_hash = [i \in 1..32 |-> 0]
        /\ koutput.metrics = [monthly_volume_range     |-> "VeryLow",
                              consistency_score        |-> 0,
                              growth_trend             |-> "Declining",
                              active_days_percentage   |-> 0,
                              customer_diversity_score |-> 0]

C23_Witness ==
    /\ Committed
    /\ Len(kinput) = 2
    /\ Scored(kinput) = <<>>
    /\ koutput.credit_score = 0
    /\ koutput.period_start = 432000

\* C24: for every input, each of consistency_score, active_days_percentage
\* and customer_diversity_score of the published BusinessMetrics lies in
\* 0..100.
C24_MetricsWithinRange ==
    Committed =>
        /\ koutput.metrics.consistency_score \in 0..100
        /\ koutput.metrics.active_days_percentage \in 0..100
        /\ koutput.metrics.customer_diversity_score \in 0..100

\* the Unix day of a timestamp: floor(timestamp / 86400)
FloorDay(timestamp) == timestamp \div SecondsPerDay

\* the number of distinct Unix days that have a scored transaction
ActiveDayCount(input) ==
    Cardinality({FloorDay(Scored(input)[i].timestamp) : i \in DOMAIN Scored(input)})

\* days_in_period of the scored transactions: whole days between the first
\* and the last timestamp, at least 1
DaysInPeriod(input) ==
    calculate_days_between(
        SetMin({Scored(input)[i].timestamp : i \in DOMAIN Scored(input)}),
        SetMax({Scored(input)[i].timestamp : i \in DOMAIN Scored(input)}))

\* whether p is count / of x 100 rounded to the nearest integer (either
\* neighbour when the quotient lies halfway between two integers)
IsRoundedPercentage(p, count, of) ==
    /\ 2 * (p * of - 100 * count) <= of
    /\ 2 * (100 * count - p * of) <= of

\* C25: for every input with at least one valid transaction,
\* active_days_percentage equals (number of distinct Unix days that have a
\* valid transaction) / days_in_period x 100 rounded to the nearest integer.
C25_ActiveDaysRounded ==
    (Committed /\ Scored(kinput) # <<>>) =>
        IsRoundedPercentage(koutput.metrics.active_days_percentage,
                            ActiveDayCount(kinput), DaysInPeriod(kinput))

\* C26: each valid transaction is bucketed under day index
\* floor(timestamp / 86400) for every signed timestamp, negative ones
\* included: two valid transactions fall in the same day bucket exactly
\* when their floor(timestamp / 86400) values are equal.
C26_BucketsAreFloorDays ==
    Committed =>
        /\ \A i \in DOMAIN Scored(kinput) :
               /\ DayOf(Scored(kinput)[i]) \in DOMAIN group_by_day(Scored(kinput))
               /\ DayOf(Scored(kinput)[i]) = FloorDay(Scored(kinput)[i].timestamp)
        /\ \A i, j \in DOMAIN Scored(kinput) :
               (DayOf(Scored(kinput)[i]) = DayOf(Scored(kinput)[j]))
                   <=> (FloorDay(Scored(kinput)[i].timestamp)
                            = FloorDay(Scored(kinput)[j].timestamp))

---------------------------------------------------------------------------
(* ReceiptSpec: prove applied to every ProofInput of at most MaxTx          *)
(* transactions, and verify_receipt applied to the bytes prove returned    *)
(* and to bytes that are no valid receipt of the guest program.            *)

\* what a lender may hold instead of the receipt prove returned
TamperedJournal(bytes) ==
    [bytes EXCEPT !.value.journal[37] = (@ + 1) % 256]
OtherProgramReceipt(output) ==
    LET journal == GuestJournal(output)
    IN  SerializeReceipt([journal |-> journal, seal |-> Seal("other_image_id", journal)])
UndecodableBytes == [bincode |-> "not a receipt"]

Verified(origin, receipt_data) ==
    [stage |-> "verified", origin |-> origin, receipt_data |-> receipt_data,
     verdict |-> verify_receipt(receipt_data)]

\* execute_zkvm_proof_direct on the assembled input; the prover may fail
ProveInput ==
    /\ koutput = NoOutput
    /\ \/ \E run \in Runs(kinput) :
             koutput' = [stage |-> "proved", result |-> execute_zkvm_proof_direct(kinput, run)]
       \/ koutput' = [stage |-> "proved", result |-> [ok |-> FALSE]]
    /\ UNCHANGED <<kinput>>
    /\ UNCHANGED sysvars

\* verify_receipt on the receipt bytes prove returned
VerifyProved ==
    /\ "stage" \in DOMAIN koutput /\ koutput.stage = "proved" /\ koutput.result.ok
    /\ koutput' = Verified("proved", koutput.result.receipt_data[1])
    /\ UNCHANGED <<kinput>>
    /\ UNCHANGED sysvars

\* verify_receipt on those bytes with the journal altered
VerifyTampered ==
    /\ "stage" \in DOMAIN koutput /\ koutput.stage = "proved" /\ koutput.result.ok
    /\ koutput' = Verified("tampered", TamperedJournal(koutput.result.receipt_data[1]))
    /\ UNCHANGED <<kinput>>
    /\ UNCHANGED sysvars

\* verify_receipt on a receipt another program proved, or on arbitrary bytes
VerifyForeign ==
    /\ koutput = NoOutput
    /\ \/ \E output \in GuestOutputs(kinput) :
             koutput' = Verified("other program", OtherProgramReceipt(output))
       \/ koutput' = Verified("undecodable", UndecodableBytes)
    /\ UNCHANGED <<kinput>>
    /\ UNCHANGED sysvars

ReceiptNext == KernelAddTx \/ ProveInput \/ VerifyProved \/ VerifyTampered \/ VerifyForeign

ReceiptSpec == Init /\ [][ReceiptNext]_vars

---------------------------------------------------------------------------
(* Claims about receipts (ReceiptSpec) *)

VerifiedAs(origins) ==
    /\ "stage" \in DOMAIN koutput
    /\ koutput.stage = "verified"
    /\ koutput.origin \in origins

\* C17: verify_receipt answers false, and returns no error, for receipt
\* bytes that are not a valid receipt of the committed program id: a receipt
\* proved for a different program, a tampered receipt, or bytes that do not
\* decode as a receipt.  It never answers true for them.
C17_InvalidReceiptIsFalse ==
    VerifiedAs({"tampered", "other program", "undecodable"})
    => koutput.verdict = [ok |-> TRUE, valid |-> FALSE]

---------------------------------------------------------------------------
(* DailySpec: the guest applied to a till that takes one Payment a day,    *)
(* each with a reference of its own, on up to MaxDays consecutive days.    *)

DayAmounts == {1, 2, 4}

\* the reference of the payment of day d
DayReference(d) == <<"ref", d>>

\* the Payment of the day after the last one of the input
NextDayPayment(input, amount) ==
    [timestamp |-> Len(input) * SecondsPerDay, amount |-> BN(amount),
     transaction_type |-> "Payment", reference |-> DayReference(Len(input))]

RECURSIVE TotalAmount(_)
TotalAmount(input) ==
    IF input = <<>> THEN 0 ELSE BVal(Head(input).amount) + TotalAmount(Tail(input))

DailyAddDay ==
    /\ Len(kinput) < MaxDays
    /\ \E amount \in DayAmounts :
           /\ TotalAmount(kinput) + amount <= MaxVolume
           /\ kinput' = Append(kinput, NextDayPayment(kinput, amount))
    /\ koutput' = NoOutput
    /\ UNCHANGED sysvars

DailyNext == DailyAddDay \/ KernelRun

DailySpec == Init /\ [][DailyNext]_vars

---------------------------------------------------------------------------
(* Claims about the scoring kernel on daily payments (DailySpec) *)

\* C21: the kernel's output is a function of the multiset of input
\* transactions only: two runs on the same list give the same ProofOutput,
\* reordering the input list does not change it, and it does not depend on
\* the order in which the day buckets or the references are iterated.
C21_OutputIsFunctionOfInput ==
    Committed =>
        /\ GuestOutputs(kinput) = {koutput}
        /\ GuestOutputs(Reverse(kinput)) = {koutput}

\* the distinct Unix days that have a scored transaction, ascending
ActiveDays(input) ==
    SortedSeq({FloorDay(Scored(input)[i].timestamp) : i \in DOMAIN Scored(input)})

\* the sum of the scored amounts on the days in the set
SumOnDays(input, days) ==
    TotalAmount(SelectSeq(Scored(input), LAMBDA t : FloorDay(t.timestamp) \in days))

\* the sum over the first k active days
FirstSum(input, k) == SumOnDays(input, {ActiveDays(input)[i] : i \in 1..k})

\* the sum over the last k active days
LastSum(input, k) ==
    SumOnDays(input, {ActiveDays(input)[Len(ActiveDays(input)) - k + i] : i \in 1..k})

\* the trend of r = (B - A) / A for A > 0, the thresholds -0.2, 0.1 and 0.5
\* compared as fractions
TrendOf(A, B) ==
    IF 5 * (B - A) < -A THEN "Declining"
    ELSE IF 10 * (B - A) < A THEN "Stable"
    ELSE IF 2 * (B - A) < A THEN "Growing"
    ELSE "Rapid"

\* C30: growth_trend is computed over the distinct active days sorted
\* ascending with k = floor(n/3): it is Stable when k = 0 or when the sum A
\* over the first k days is 0; otherwise, with B the sum over the last k
\* days and r = (B - A)/A, it is Declining if r < -0.2, Stable if
\* -0.2 <= r < 0.1, Growing if 0.1 <= r < 0.5, and Rapid if r >= 0.5.
C30_GrowthTrendThresholds ==
    (Committed /\ Scored(kinput) # <<>>) =>
        koutput.metrics.growth_trend =
            IF Len(ActiveDays(kinput)) \div 3 = 0
                   \/ FirstSum(kinput, Len(ActiveDays(kinput)) \div 3) = 0
            THEN "Stable"
            ELSE TrendOf(FirstSum(kinput, Len(ActiveDays(kinput)) \div 3),
                         LastSum(kinput, Len(ActiveDays(kinput)) \div 3))

---------------------------------------------------------------------------
(* ScenarioSpec: the guest on the inputs of scenario S1 as they grow, one  *)
(* Payment of KSh 1,000 a day on consecutive days, every reference its     *)
(* own, from a first payment at midnight, at noon or in the last second of *)
(* a day.                                                                  *)

MaxScenarioDays == 30

ScenarioStarts == {0, 12 * 60 * 60, SecondsPerDay - 1}

ScenarioAddDay ==
    /\ Len(kinput) < MaxScenarioDays
    /\ \E timestamp \in (IF kinput = <<>> THEN ScenarioStarts
                         ELSE {kinput[Len(kinput)].timestamp + SecondsPerDay}) :
           kinput' = Append(kinput, [timestamp |-> timestamp,
                                     amount |-> BN(1000 * 100),
                                     transaction_type |-> "Payment",
                                     reference |-> DayReference(Len(kinput))])
    /\ koutput' = NoOutput
    /\ UNCHANGED sysvars

ScenarioNext == ScenarioAddDay \/ KernelRun

ScenarioSpec == Init /\ [][ScenarioNext]_vars

\* C28: scenario S1: for 30 consecutive days with one Payment of 100,000
\* cents per day and all references distinct, the kernel outputs
\* credit_score between 8 and 18, monthly_volume_range = VeryLow,
\* growth_trend = Stable, active_days_percentage = 100 and
\* customer_diversity_score = 100.
C28_ScenarioS1 ==
    (Committed /\ Len(kinput) = 30) =>
        /\ koutput.credit_score \in 8..18
        /\ koutput.metrics.monthly_volume_range = "VeryLow"
        /\ koutput.metrics.growth_trend = "Stable"
        /\ koutput.metrics.active_days_percentage = 100
        /\ koutput.metrics.customer_diversity_score = 100

---------------------------------------------------------------------------
(* QueuedSpec: the queued proof path on persisted rows with signed         *)
(* amounts.  Rows are uploaded to till t1; a worker loads the till's rows, *)
(* builds the ProofInput and has the guest prove it.  kinput holds the     *)
(* rows the worker loaded, koutput what execute_zkvm_proof returned.       *)

\* parsed CSV records: parse_amount keeps a minus sign (data.rs:199-212), so
\* the amount column (i64, models.rs:38) holds negative and zero amounts too
StoredPool ==
    { [timestamp |-> 86400,  amount |-> 500,  transaction_type |-> "Payment",  reference |-> "a"],
      [timestamp |-> 90000,  amount |-> -500, transaction_type |-> "Payment",  reference |-> "b"],
      [timestamp |-> 172800, amount |-> 0,    transaction_type |-> "Payment",  reference |-> "c"],
      [timestamp |-> 180000, amount |-> -1,   transaction_type |-> "Reversal", reference |-> "a"],
      [timestamp |-> 259200, amount |-> 700,  transaction_type |-> "Payment",  reference |-> "b"],
      [timestamp |-> 345600, amount |-> 300,  transaction_type |-> "Deposit",  reference |-> "c"],
      [timestamp |-> 350000, amount |-> 200,  transaction_type |-> "Reversal", reference |-> "c"] }

QueuedUpload == \E tx \in StoredPool : UploadData("u1", "t1", tx)

\* worker.rs:60-97 and proof.rs:65-79: the worker loads the till's rows,
\* generate_proof converts them and the prover executes the guest on them
QueuedGenerate ==
    /\ koutput = NoOutput
    /\ \E rows \in OrderedByTimestamp(transactions["t1"]) :
           /\ kinput' = rows
           /\ \E run \in Runs(ProofInputOf(rows)) :
                  koutput' = GuestMain(ProofInputOf(rows), run)
    /\ reply' = NoReply
    /\ UNCHANGED <<sessions, users, tills, transactions, queue, wvars, faults, pushes,
                   accepted, now>>

QueuedNext == QueuedUpload \/ QueuedGenerate

QueuedSpec == Init /\ [][QueuedNext]_vars

\* the rows whose stored amount is positive
PositiveRows(rows) == SelectSeq(rows, LAMBDA r : r.amount > 0)

\* what the guest's outcome says about the score
ScoringOf(output) ==
    IF output = Panic THEN Panic
    ELSE [credit_score |-> output.credit_score, metrics |-> output.metrics]

\* C27: in the queued proof path a persisted transaction whose stored signed
\* amount is zero or negative never participates in scoring: the score and
\* the metrics the guest computes are those it computes for the rows with a
\* positive amount.
C27_NonPositiveAmountsNeverScore ==
    koutput # NoOutput =>
        \E run \in Runs(ProofInputOf(PositiveRows(kinput))) :
            ScoringOf(koutput) = ScoringOf(GuestMain(ProofInputOf(PositiveRows(kinput)), run))

---------------------------------------------------------------------------
(* ScaledSpec: the kernel on inputs whose amounts go up to 2^62, and the   *)
(* same inputs with every amount multiplied by a factor.                   *)

ScaledPool ==
    { [timestamp |-> 86400,  amount |-> BShl(<<1>>, 62), transaction_type |-> "Payment",  reference |-> "a"],
      [timestamp |-> 172800, amount |-> BShl(<<1>>, 62), transaction_type |-> "Payment",  reference |-> "b"],
      [timestamp |-> 86400,  amount |-> BN(100000),      transaction_type |-> "Payment",  reference |-> "a"],
      [timestamp |-> 259200, amount |-> BN(300000),      transaction_type |-> "Reversal", reference |-> "b"],
      [timestamp |-> 90000,  amount |-> BN(0),           transaction_type |-> "Payment",  reference |-> "c"],
      [timestamp |-> 345600, amount |-> BN(7),           transaction_type |-> "Deposit",  reference |-> "c"] }

\* a caller assembles the ProofInput one transaction at a time
ScaledAddTx ==
    /\ Len(kinput) < MaxTx
    /\ \E t \in ScaledPool : kinput' = Append(kinput, t)
    /\ koutput' = NoOutput
    /\ UNCHANGED sysvars

ScaledNext == ScaledAddTx \/ KernelRun

ScaledSpec == Init /\ [][ScaledNext]_vars

\* the factors every amount is multiplied by
Factors == {2, 3}

\* the input with every amount multiplied by f
ScaleAmounts(input, f) ==
    [i \in DOMAIN input |-> [input[i] EXCEPT !.amount = BMulSmall(input[i].amount, f)]] \o <<>>

\* every multiplied amount is a u64
IsProofInput(input) == \A i \in DOMAIN input : BCmp(input[i].amount, TwoTo64) < 0

\* C29: for every input and every positive integer factor f, multiplying
\* every transaction amount by f never lowers the volume component of the
\* credit score and leaves active_days_percentage and
\* customer_diversity_score unchanged.
C29_ScalingNeverLowersVolume ==
    Committed =>
        \A f \in Factors :
            \A scaled \in {ScaleAmounts(kinput, f)} :
                IsProofInput(scaled) =>
                    \A run \in Runs(scaled) :
                        \A output \in {GuestMain(scaled, run)} :
                            output # Panic =>
                                /\ VolumePoints(output.metrics.monthly_volume_range)
                                       >= VolumePoints(koutput.metrics.monthly_volume_range)
                                /\ output.metrics.active_days_percentage
                                       = koutput.metrics.active_days_percentage
                                /\ output.metrics.customer_diversity_score
                                       = koutput.metrics.customer_diversity_score

---------------------------------------------------------------------------
(* PeriodSpec: calculate_days_between on the whole i64 range.  A wide     *)
(* integer is a sign and a magnitude; zero has sign 1.                    *)

TwoTo63 == BShl(<<1>>, 63)

Wide(sgn, m) == [sgn |-> IF m = <<>> THEN 1 ELSE sgn, m |-> m]

\* end - start without any width
WideSub(a0, b0) ==
    (CHOOSE the \in {IF a.sgn # b.sgn THEN Wide(a.sgn, BAdd(a.m, b.m))
         ELSE IF BCmp(a.m, b.m) >= 0 THEN Wide(a.sgn, BSub(a.m, b.m))
         ELSE Wide(-a.sgn, BSub(b.m, a.m)) : a \in {a0}, b \in {b0}} : TRUE)

FitsI64(x) == IF x.sgn = 1 THEN BCmp(x.m, TwoTo63) < 0 ELSE BCmp(x.m, TwoTo63) <= 0

\* the i64 a wrapping operation leaves for a result within one 2^64 of the range
WrapI64(x0) ==
    (CHOOSE the \in {IF FitsI64(x) THEN x ELSE Wide(-x.sgn, BSub(TwoTo64, x.m)) : x \in {x0}} : TRUE)

\* calculate_days_between on i64 values: `end - start` panics or wraps by
\* the build's overflow-checks setting
calculate_days_between_i64(start, end, overflow_checks) ==
    (CHOOSE the \in {IF overflow_checks /\ ~FitsI64(exact) THEN Panic
         ELSE (CHOOSE the \in {IF diff.sgn = -1 \/ diff.m = <<>> THEN [days |-> <<1>>]
                   ELSE (CHOOSE the \in {[days |-> IF BCmp(days, <<1>>) > 0 THEN days ELSE <<1>>] :
                             days \in {BDivMod(diff.m, BN(SecondsPerDay)).q}} : TRUE) :
                   diff \in {WrapI64(exact)}} : TRUE) :
         exact \in {WideSub(end, start)}} : TRUE)

\* timestamps of the first and the last valid transaction
PeriodPool ==
    { Wide(-1, TwoTo63), Wide(-1, BShl(<<1>>, 62)), Wide(-1, BN(172800)), Wide(-1, BN(1)),
      Wide(1, <<>>), Wide(1, BN(1)), Wide(1, BN(86399)), Wide(1, BN(86400)),
      Wide(1, BN(172799)), Wide(1, BN(259200)), Wide(1, BShl(<<1>>, 62)),
      Wide(1, BSub(TwoTo63, <<1>>)) }

WideLeq(a, b) == WideSub(b, a).sgn = 1

\* main, lines 92-93: the minimum and the maximum timestamp
PeriodRead ==
    /\ \E period_start \in PeriodPool, period_end \in PeriodPool :
           /\ WideLeq(period_start, period_end)
           /\ kinput' = [period_start |-> period_start, period_end |-> period_end]
    /\ koutput' = NoOutput
    /\ UNCHANGED sysvars

\* main, line 97
PeriodRun ==
    /\ kinput # <<>>
    /\ koutput = NoOutput
    /\ \E overflow_checks \in (IF FitsI64(WideSub(kinput.period_end, kinput.period_start))
                               THEN {FALSE} ELSE BOOLEAN) :
           koutput' = calculate_days_between_i64(kinput.period_start, kinput.period_end,
                                                 overflow_checks)
    /\ UNCHANGED <<kinput>>
    /\ UNCHANGED sysvars

PeriodNext == PeriodRead \/ PeriodRun

PeriodSpec == Init /\ [][PeriodNext]_vars

\* max(1, floor((end - start) / 86400)) for start <= end
DaysInPeriodOf(start, end) ==
    (CHOOSE the \in {IF BCmp(days, <<1>>) > 0 THEN days ELSE <<1>> :
         days \in {BDivMod(WideSub(end, start).m, BN(SecondsPerDay)).q}} : TRUE)

\* C31: for every input with at least one valid transaction, period_start
\* is the minimum and period_end the maximum timestamp of the valid
\* transactions, and days_in_period is
\* max(1, floor((period_end - period_start) / 86400)).
C31_DaysInPeriod ==
    koutput # NoOutput =>
        /\ koutput # Panic
        /\ koutput.days = DaysInPeriodOf(kinput.period_start, kinput.period_end)

---------------------------------------------------------------------------
(* VolumeSpec: the monthly volume range as a function of the total amount *)
(* and the days in the period, on totals around each threshold.           *)

\* thresholds of categorize_volume, in whole currency units
VolumeThresholds == {50000, 250000, 1000000, 5000000}

\* days_in_period up to a period of 10^9 days
VolumeDays ==
    {BN(1), BN(2), BN(3), BN(7), BN(30), BN(365), BN(1000), BN(1000000000)}

\* the least total_amount whose exact monthly volume reaches a threshold
LeastTotalFor(days, threshold) ==
    (CHOOSE the \in {IF d.r = 0 THEN d.q ELSE BAdd(d.q, <<1>>) :
         d \in {BDivSmall(BMul(BN(threshold * 100), days), 30)}} : TRUE)

\* main, lines 96-97: the total amount and the days in the period
VolumeRead ==
    /\ \E days_in_period \in VolumeDays, threshold \in VolumeThresholds, below \in {0, 1} :
           kinput' = [total_volume   |-> BSub(LeastTotalFor(days_in_period, threshold), BN(below)),
                      days_in_period |-> days_in_period]
    /\ koutput' = NoOutput
    /\ UNCHANGED sysvars

\* main, lines 99-105
VolumeRun ==
    /\ kinput # <<>>
    /\ koutput = NoOutput
    /\ koutput' = [monthly_volume_range |->
                       categorize_volume(FToU64(MonthlyVolume(kinput.total_volume,
                                                              kinput.days_in_period)))]
    /\ UNCHANGED <<kinput>>
    /\ UNCHANGED sysvars

VolumeNext == VolumeRead \/ VolumeRun

VolumeSpec == Init /\ [][VolumeNext]_vars

\* floor(floor(total_amount * 30 / days_in_period) / 100)
WholeMonthlyVolume(total_amount, days_in_period) ==
    BDivSmall(BDivMod(BMulSmall(total_amount, 30), days_in_period).q, 100).q

RangeOfWhole(m0) ==
    (CHOOSE the \in {IF BCmp(m, BN(50000)) < 0 THEN "VeryLow"
         ELSE IF BCmp(m, BN(250000)) < 0 THEN "Low"
         ELSE IF BCmp(m, BN(1000000)) < 0 THEN "Medium"
         ELSE IF BCmp(m, BN(5000000)) < 0 THEN "High"
         ELSE "VeryHigh" : m \in {m0}} : TRUE)

\* C32: monthly_volume_range is determined by
\* m = floor(floor(total_amount * 30 / days_in_period) / 100): VeryLow if
\* m < 50,000, Low if m < 250,000, Medium if m < 1,000,000, High if
\* m < 5,000,000 and VeryHigh otherwise.
C32_VolumeRangeOfWholeVolume ==
    koutput # NoOutput =>
        koutput.monthly_volume_range
            = RangeOfWhole(WholeMonthlyVolume(kinput.total_volume, kinput.days_in_period))

---------------------------------------------------------------------------
(* DiversitySpec: the kernel on one day of Payments of which the first    *)
(* ones carry pairwise distinct references and the later ones repeat the  *)
(* first reference.                                                       *)

References(input) == {input[i].reference : i \in DOMAIN input}

\* a caller assembles the ProofInput one transaction at a time
DiversityAddTx ==
    /\ Len(kinput) < MaxValidTx
    /\ \E reference \in
              (IF Cardinality(References(kinput)) = Len(kinput) /\ Len(kinput) < MaxReferences
               THEN {DayReference(Len(kinput))} ELSE {})
              \cup (IF kinput = <<>> THEN {} ELSE {kinput[1].reference}) :
           kinput' = Append(kinput, [timestamp |-> SecondsPerDay, amount |-> BN(1),
                                     transaction_type |-> "Payment",
                                     reference |-> reference])
    /\ koutput' = NoOutput
    /\ UNCHANGED sysvars

DiversityNext == DiversityAddTx \/ KernelRun

DiversitySpec == Init /\ [][DiversityNext]_vars

\* C33: for every input with at least one valid transaction,
\* customer_diversity_score is floor(100 * distinct / valid), where distinct
\* counts the distinct reference strings of the valid transactions and
\* valid the valid transactions; 30 valid transactions sharing one reference
\* give 3.
C33_DiversityIsFloor ==
    (Committed /\ Scored(kinput) # <<>>) =>
        koutput.metrics.customer_diversity_score
            = (100 * Cardinality(References(Scored(kinput)))) \div Len(Scored(kinput))

---------------------------------------------------------------------------
(* ScoreSpec: calculate_credit_score on its own.  One of the three u8     *)
(* scores runs over all of u8 while the other two are 0 or 100.           *)

\* the arguments main passes at lines 133-139
ScoreRead ==
    /\ kinput = <<>>
    /\ \E volume_range \in {VolumeRanges[i] : i \in DOMAIN VolumeRanges},
          growth_trend \in {GrowthTrends[i] : i \in DOMAIN GrowthTrends},
          which \in 1..3, score \in 0..255, other \in {0, 100} :
           kinput' = [monthly_volume_range     |-> volume_range,
                      consistency_score        |-> IF which = 1 THEN score ELSE other,
                      growth_trend             |-> growth_trend,
                      active_days_percentage   |-> IF which = 2 THEN score ELSE other,
                      customer_diversity_score |-> IF which = 3 THEN score ELSE other]
    /\ koutput' = NoOutput
    /\ UNCHANGED sysvars

ScoreRun ==
    /\ kinput # <<>>
    /\ koutput = NoOutput
    /\ koutput' = [credit_score |->
                       calculate_credit_score(kinput.monthly_volume_range,
                                              kinput.consistency_score,
                                              kinput.active_days_percentage,
                                              kinput.growth_trend,
                                              kinput.customer_diversity_score)]
    /\ UNCHANGED <<kinput>>
    /\ UNCHANGED sysvars

ScoreNext == ScoreRead \/ ScoreRun

ScoreSpec == Init /\ [][ScoreNext]_vars

\* the volume and the growth component as the scoring table gives them
VolumeComponent ==
    [VeryLow |-> 5, Low |-> 10, Medium |-> 20, High |-> 25, VeryHigh |-> 30]
GrowthComponent == [Declining |-> 0, Stable |-> 5, Growing |-> 7, Rapid |-> 10]

\* volume + floor(consistency * 0.30) + floor(active * 0.20) + growth
\* + floor(diversity * 0.10)
WeightedSum(metrics) ==
    VolumeComponent[metrics.monthly_volume_range]
    + (metrics.consistency_score * 30) \div 100
    + (metrics.active_days_percentage * 20) \div 100
    + GrowthComponent[metrics.growth_trend]
    + (metrics.customer_diversity_score * 10) \div 100

\* C34: calculate_credit_score returns max(sum, volume), where volume is
\* 5/10/20/25/30 for VeryLow/Low/Medium/High/VeryHigh and sum is volume
\* + floor(consistency_score * 0.30) + floor(active_days_percentage * 0.20)
\* + growth (0/5/7/10 for Declining/Stable/Growing/Rapid)
\* + floor(customer_diversity_score * 0.10).
C34_CreditScoreIsWeightedSum ==
    koutput # NoOutput =>
        koutput.credit_score
            = IF WeightedSum(kinput) > VolumeComponent[kinput.monthly_volume_range]
              THEN WeightedSum(kinput)
              ELSE VolumeComponent[kinput.monthly_volume_range]

\* C34 witness: a Medium, Growing input with consistency 33 has been scored
\* 20 + 9 + 20 + 7 + 10 = 66.
C34_Witness ==
    /\ koutput # NoOutput
    /\ kinput = [monthly_volume_range |-> "Medium", consistency_score |-> 33,
                 growth_trend |-> "Growing", active_days_percentage |-> 100,
                 customer_diversity_score |-> 100]
    /\ koutput.credit_score = 66

---------------------------------------------------------------------------
(* Further claims about the proof endpoints and the worker *)

\* the steps taken by POST /api/proofs/generate
GenerateProofStep == reply'.op = "generate_proof"

\* C35: POST /api/proofs/generate creates a session and enqueues its id only
\* when the till exists and belongs to the caller; when the till is unknown
\* or owned by another user the request is rejected, no session row is
\* created and nothing is pushed onto proof_queue; on success exactly one
\* Pending session is created and its id is pushed exactly once.
C35_GenerateProofGuarded ==
    [][GenerateProofStep =>
         /\ \A id \in DOMAIN sessions' \ DOMAIN sessions :
                /\ sessions'[id].till_id \in DOMAIN tills
                /\ tills[sessions'[id].till_id] = sessions'[id].user_id
         /\ queue' # queue => reply'.status = "ok"
         /\ reply'.status \in {"validation", "not_found", "unauthorized"}
                => sessions' = sessions /\ queue' = queue
         /\ reply'.status = "ok"
                => /\ DOMAIN sessions' = DOMAIN sessions \cup {reply'.session_id}
                   /\ reply'.session_id \notin DOMAIN sessions
                   /\ \A i \in DOMAIN sessions : sessions'[i] = sessions[i]
                   /\ sessions'[reply'.session_id].status = "pending"
                   /\ queue' = <<UuidStr(reply'.session_id)>> \o queue]_vars

\* C35 witness: a request for the caller's own till has succeeded, and its
\* pending session heads the queue.
C35_Witness ==
    /\ reply.op = "generate_proof" /\ reply.status = "ok"
    /\ sessions[reply.session_id].status = "pending"
    /\ sessions[reply.session_id].till_id = "t1"
    /\ queue # <<>> /\ Head(queue) = UuidStr(reply.session_id)


\* C36: the kernel's credit_score is 0 exactly when no input transaction
\* passes the filter; whenever at least one transaction has amount > 0 and
\* type Payment or Reversal the credit_score is at least 5.
C36_ZeroScoreMeansNoValidTransactions ==
    Committed =>
        /\ koutput.credit_score = 0 <=> Scored(kinput) = <<>>
        /\ Scored(kinput) # <<>> => koutput.credit_score >= 5

\* C36 witness: the guest has scored an input of three transactions of which
\* exactly one passes the filter.
C36_Witness ==
    /\ Committed
    /\ Len(kinput) = 3 /\ Len(Scored(kinput)) = 1
    /\ koutput.credit_score >= 5


\* C37: persisted transactions are unique per (till_id, reference), so every
\* kernel input the worker builds from the transactions table has pairwise
\* distinct references, and every proof produced through the queue with at
\* least one valid transaction has customer_diversity_score = 100.
C37_QueuedDiversityIsFull ==
    koutput # NoOutput =>
        /\ \A i, j \in DOMAIN kinput :
               i # j => kinput[i].reference # kinput[j].reference
        /\ (Committed /\ ValidTransactions(ProofInputOf(kinput)) # <<>>)
               => koutput.metrics.customer_diversity_score = 100

\* C37 witness: a proof of three persisted rows of which two are valid has
\* been produced, with full diversity.
C37_Witness ==
    /\ Committed
    /\ Len(kinput) = 3
    /\ Len(ValidTransactions(ProofInputOf(kinput))) = 2
    /\ koutput.metrics.customer_diversity_score = 100


\* a queue entry that is no UUID or names no session row
BadEntry(entry) == ~ParsesAsUuid(entry) \/ entry.n \notin SessionIds

\* a worker holds the id of a session that does not exist
BadJob(w) == wjob[w] # NoJob /\ wjob[w] \notin SessionIds

\* the id of an existing session is queued right behind a bad entry
QueuedBehindBad(id) ==
    /\ Len(queue) = 2
    /\ BadEntry(queue[2])
    /\ queue[1] = UuidStr(id) /\ id \in SessionIds

\* C38: a queue entry that is not a valid session id, or that names no
\* existing session, is consumed without changing any session row and
\* without stopping the worker; the valid session ids queued behind it are
\* still processed.
C38_BadEntriesAreSkipped ==
    /\ [][/\ (/\ queue # <<>>
              /\ queue' = SubSeq(queue, 1, Len(queue) - 1)
              /\ ~ParsesAsUuid(queue[Len(queue)]))
             => sessions' = sessions /\ wpc' = wpc
          /\ \A w \in Workers :
                 (BadJob(w) /\ wpc'[w] # wpc[w])
                     => sessions' = sessions /\ wpc'[w] \in {"load", "idle"}]_vars
    /\ \A id \in 1..MaxSessions :
           QueuedBehindBad(id) ~> (\E w \in Workers : wjob[w] = id)

\* C38 witness: the one entry pushed from outside was a bad one and is gone,
\* no session row has changed, and a worker has taken the session id that
\* was queued behind it.
C38_Witness ==
    /\ pushes = 1 /\ faults = 0 /\ queue = <<>>
    /\ SessionIds = {1} /\ sessions[1].status = "pending"
    /\ wjob["w1"] = 1 /\ wpc["w1"] = "claim"
    /\ wpc["w2"] = "idle"


\* the steps taken by POST /api/proofs/generate-direct
GenerateDirectStep == reply'.op = "generate_direct"

\* C39: generate_direct proves before it writes: if proof generation fails
\* it returns an error and no session, user or till row is created or
\* changed; if it succeeds it inserts exactly one new session that is
\* Completed from its first state, with non-null credit_score, metrics and
\* receipt_data and with expires_at 90 days after creation.
C39_DirectProvesBeforeWriting ==
    [][GenerateDirectStep =>
         /\ reply'.status = "internal_error"
                => sessions' = sessions /\ users' = users /\ tills' = tills
         /\ sessions' # sessions => reply'.status = "ok"
         /\ reply'.status = "ok"
                => /\ DOMAIN sessions' = DOMAIN sessions \cup {reply'.session_id}
                   /\ reply'.session_id \notin DOMAIN sessions
                   /\ \A i \in DOMAIN sessions : sessions'[i] = sessions[i]
                   /\ \A row \in {sessions'[reply'.session_id]} :
                          /\ row.status = "completed"
                          /\ row.credit_score # None
                          /\ row.metrics # None
                          /\ row.receipt_data # None
                          /\ row.created_at = now
                          /\ row.expires_at = row.created_at + 90]_vars

\* C39 witness: a direct proof has succeeded and its session is completed
\* with a score, metrics and a receipt.
C39_Witness ==
    /\ reply.op = "generate_direct" /\ reply.status = "ok"
    /\ sessions[reply.session_id].status = "completed"
    /\ sessions[reply.session_id].credit_score # None
    /\ sessions[reply.session_id].receipt_data # None
    /\ sessions[reply.session_id].user_id = NilId

=============================================================================
